---- MODULE Spec2Model ----
(***************************************************************************)
(* Generation orchestration engine of content-creation-backend:            *)
(* keyframe_service.py, video_service.py and script_parser.py.             *)
(*                                                                         *)
(* The store holds keyframe rows and video-segment rows.  HTTP handlers    *)
(* run on behalf of clients; background units (asyncio tasks) run the      *)
(* generation jobs, each with its own database session.                    *)
(***************************************************************************)
EXTENDS Integers, Sequences, FiniteSets, Bags, TLC

VARIABLES
    scripts,    \* script id -> content (a sequence of paragraphs)
    keyframes,  \* keyframe id -> row            (table keyframes)
    videos,     \* video segment id -> row       (table video_segments)
    nextKf,     \* next autoincrement id of table keyframes
    nextVs,     \* next autoincrement id of table video_segments
    units,      \* the bag of background units (asyncio tasks) alive
    req,        \* client -> the generate request it has in flight, or Idle
    now         \* wall clock, in minutes

vars == <<scripts, keyframes, videos, nextKf, nextVs, units, req, now>>

(***************************************************************************)
(* Bounds of the model.                                                    *)
(***************************************************************************)
MaxTime == 6        \* the clock stops here
MaxKfId == 4        \* keyframe ids handed out
MaxVsId == 12        \* video segment ids handed out
MaxUnits == 2       \* background units alive at the same time
MaxParas == 3       \* paragraphs of a script drawn for the segmenter
MaxBody == 11       \* body keyframes of a script drawn for generate_videos

(***************************************************************************)
(* Program constants.                                                      *)
(***************************************************************************)
STALE_KEYFRAME_TIMEOUT == 5     \* minutes

None == "None"
\* a null url column, and the absence of a loaded row
NoUrl == [kf |-> 0, by |-> "null"]
NoRow == [status |-> "unloaded"]
TimeoutMsg == "timeout: regenerate the keyframe"
JobError == "job error"

GENERATING == "generating"
COMPLETED == "completed"
FAILED == "failed"

(***************************************************************************)
(* Small helpers on sequences and functions.                               *)
(***************************************************************************)
Range(f) == {f[x] : x \in DOMAIN f}

\* f with every key kept
WithoutNothing(f, S) == f

\* f without the keys in S
Without(f, S) == [x \in (DOMAIN f) \ S |-> f[x]]

\* f extended or overwritten by g
Merge(f, g) == [x \in (DOMAIN f) \cup (DOMAIN g) |->
                    IF x \in DOMAIN g THEN g[x] ELSE f[x]]

RECURSIVE SeqOfSet(_)
\* the elements of a finite set of integers, ascending
SeqOfSet(S) ==
    IF S = {} THEN <<>>
    ELSE LET m == CHOOSE x \in S : \A y \in S : x <= y
         IN <<m>> \o SeqOfSet(S \ {m})

(***************************************************************************)
(* Script content.  A script is a sequence of paragraphs (lines); what the *)
(* segmenter's regular expressions can tell apart is the marker a          *)
(* paragraph starts with:                                                  *)
(*   frame0         "<frame-0 label>: ..."                                 *)
(*   zero_opening   "(0:00 - 0:00) <opening label>: ..."                   *)
(*   opening_label  "<opening label>: ..."                                 *)
(*   time_colon     "(m:ss - m:ss) ..."                                    *)
(*   sec_paren      "(a-bs) ..."                                           *)
(*   sec_bare       "a-bs ..."                                             *)
(*   text           no marker                                              *)
(* The text of paragraph i is identified by its position i.                *)
(***************************************************************************)
OpeningKinds == {"frame0", "zero_opening", "opening_label"}

\* what time_pattern matches: zero_opening starts with "(0:00 - 0:00)"
TimeKinds == {"zero_opening", "time_colon", "sec_paren", "sec_bare"}

ParaKinds == OpeningKinds \cup TimeKinds \cup {"text"}

\* segment ids are strings: "frame_0", "segment_<n>", "segment_<n>_first_frame"
SegId(base, n, suffix) == [base |-> base, n |-> n, suffix |-> suffix]

FirstFrameOf(sid) == [sid EXCEPT !.suffix = "_first_frame"]

EndsWithFirstFrame(sid) == sid.suffix = "_first_frame"

\* the paragraphs from position a up to the next time stamp or the end
RunFrom(content, a) ==
    LET later == {j \in (a + 1)..Len(content) : content[j] \in TimeKinds}
        stop == IF later = {} THEN Len(content) + 1
                ELSE CHOOSE j \in later : \A k \in later : j <= k
    IN [k \in 1..(stop - a) |-> a + k - 1]

\* frame_0_match: the leftmost opening marker and the text it captures
Frame0Segment(content) ==
    LET at == {i \in 1..Len(content) : content[i] \in OpeningKinds}
    IN IF at = {} THEN <<>>
       ELSE LET i == CHOOSE x \in at : \A y \in at : x <= y
            IN <<[segment_id |-> SegId("frame", 0, ""),
                  content |-> IF content[i] = "opening_label"
                              THEN RunFrom(content, i) ELSE <<i>>,
                  is_frame_0 |-> TRUE]>>

\* one body segment per time stamp, numbered from 0 in the order found
BodySegments(content) ==
    LET matches == SeqOfSet({i \in 1..Len(content) : content[i] \in TimeKinds})
    IN [i \in 1..Len(matches) |->
            [segment_id |-> SegId("segment", i - 1, ""),
             content |-> RunFrom(content, matches[i]),
             is_frame_0 |-> FALSE]]

parse_script(content) ==
    IF content = <<>> THEN <<>>
    ELSE LET f0 == Frame0Segment(content)
             body == BodySegments(content)
         IN IF body # <<>> THEN f0 \o body
            ELSE IF f0 # <<>> THEN f0
            ELSE <<[segment_id |-> SegId("segment", 0, ""),
                    content |-> [k \in 1..Len(content) |-> k],
                    is_frame_0 |-> FALSE]>>

(***************************************************************************)
(* Rows and the ORM's unit of work.  A session writes the columns whose    *)
(* assigned value differs from the value it loaded; when no column         *)
(* differs no UPDATE is sent and updated_at (onupdate=now) is not touched. *)
(***************************************************************************)
NewKeyframe(id, script_id, segment_id, prompt) ==
    [id |-> id, script_id |-> script_id, segment_id |-> segment_id,
     image_url |-> NoUrl, prompt |-> prompt, status |-> GENERATING,
     error_message |-> None, updated_at |-> now]

\* the row in the table after a session that loaded `loaded` and assigned
\* `assigned` (a function column -> value) commits
Flush(row, loaded, assigned) ==
    LET dirty == {c \in DOMAIN assigned : assigned[c] # loaded[c]}
    IN IF dirty = {} THEN row
       ELSE [c \in DOMAIN row |->
                IF c \in dirty THEN assigned[c]
                ELSE IF c = "updated_at" THEN now
                ELSE row[c]]

\* the attributes of a row a job's session holds after its SELECT
Loaded(row) ==
    [c \in {"image_url", "prompt", "status", "error_message"} |-> row[c]]

\* a selection that ignores the script
RowsOfAnyScript(table, script_id) == DOMAIN table

KeyframesOf(table, script_id) ==
    {id \in DOMAIN table : table[id].script_id = script_id}

(***************************************************************************)
(* Background units.  A pipeline unit walks ids[1..Len(ids)] with `prev`   *)
(* as previous_image_url; a regenerate unit and a video unit have one id.  *)
(* pc = "start": the job of ids[i] has not read its row yet;               *)
(* pc = "calling": the row is loaded and the generation call is under way. *)
(* Of the call, `api` is the provider function it went to, `polls` the     *)
(* number of poll requests it has issued, and `call` where it stands:      *)
(* "pending" (no task submitted), "polling", or ended as "succeeded",      *)
(* "failed" or "timeout", or before any poll as "unconfigured" (no         *)
(* credentials), "unsupported" (no provider for the model) or "http_error" *)
(* (the submit request was refused).                                       *)
(***************************************************************************)
\* asyncio.create_task / ensure_future
Launch(bag, unit) == bag (+) SetToBag({unit})

\* the unit `old` goes on as `new`; when it ends every unit ends with it
StepEndsAll(bag, old, new) ==
    IF new = <<>> THEN EmptyBag
    ELSE (bag (-) SetToBag({old})) (+) SetToBag({new})

\* the unit `old` goes on as `new`, or ends when `new` is <<>>
Step(bag, old, new) ==
    IF new = <<>> THEN bag (-) SetToBag({old})
    ELSE (bag (-) SetToBag({old})) (+) SetToBag({new})

CanLaunch(n) == BagCardinality(units) + n <= MaxUnits

NewUnit(kind, ids) ==
    [kind |-> kind, ids |-> ids, i |-> 1, prev |-> NoUrl, pc |-> "start",
     loaded |-> NoRow, api |-> "none", call |-> "pending", polls |-> 0]

Idle == [pc |-> "idle"]

\* a script id no script has
AbsentScript == "s0"

\* the blob-store url of the image a unit of kind `kind` made for keyframe id
ImageUrl(id, kind) == [kf |-> id, by |-> "oss"]

(***************************************************************************)
(* KeyframeService.generate_keyframes, in its two committed steps.         *)
(***************************************************************************)
Ready(c) == req[c].pc \in {"idle", "done"}

Done(op, script_id, result, created, pre) ==
    [pc |-> "done", op |-> op, script |-> script_id, result |-> result,
     created |-> created, deleted |-> pre]

\* the rows with the opening frame named after the last body segment
KeyframeRowsLastNamed(script_id, segments, first) ==
    LET normal == SelectSeq(segments, LAMBDA g : ~g.is_frame_0)
        f0 == SelectSeq(segments, LAMBDA g : g.is_frame_0)
        head == IF f0 = <<>> THEN <<>>
                ELSE <<[segment_id |-> FirstFrameOf(normal[Len(normal)].segment_id),
                        prompt |-> f0[1].content]>>
        specs == head \o [k \in 1..Len(normal) |->
                            [segment_id |-> normal[k].segment_id,
                             prompt |-> normal[k].content]]
    IN [k \in 1..Len(specs) |->
            NewKeyframe(first + k - 1, script_id, specs[k].segment_id,
                        specs[k].prompt)]

\* the rows generate_keyframes adds for `segments`, first id `first`
KeyframeRows(script_id, segments, first) ==
    LET normal == SelectSeq(segments, LAMBDA g : ~g.is_frame_0)
        f0 == SelectSeq(segments, LAMBDA g : g.is_frame_0)
        head == IF f0 = <<>> THEN <<>>
                ELSE <<[segment_id |-> FirstFrameOf(normal[1].segment_id),
                        prompt |-> f0[1].content]>>
        specs == head \o [k \in 1..Len(normal) |->
                            [segment_id |-> normal[k].segment_id,
                             prompt |-> normal[k].content]]
    IN [k \in 1..Len(specs) |->
            NewKeyframe(first + k - 1, script_id, specs[k].segment_id,
                        specs[k].prompt)]

\* lines 63-85: look the script up, parse it, delete the old rows, commit
GenKfBegin(c, s) ==
    /\ Ready(c)
    /\ LET pre == FALSE
           del == KeyframesOf(keyframes, s) # {}
       IN IF s \notin DOMAIN scripts
          THEN /\ req' = [req EXCEPT ![c] =
                            Done("generate_keyframes", s, "NotFoundError", <<>>, pre)]
               /\ UNCHANGED keyframes
          ELSE IF scripts[s] = <<>> \/ parse_script(scripts[s]) = <<>>
          THEN /\ req' = [req EXCEPT ![c] =
                            Done("generate_keyframes", s, "ValidationError", <<>>, pre)]
               /\ UNCHANGED keyframes
          ELSE /\ keyframes' = Without(keyframes, KeyframesOf(keyframes, s))
               /\ req' = [req EXCEPT ![c] =
                            [pc |-> "insert", op |-> "generate_keyframes",
                             script |-> s, segments |-> parse_script(scripts[s]),
                             deleted |-> del]]
    /\ UNCHANGED <<scripts, videos, nextKf, nextVs, units, now>>

\* lines 92-150: create the rows in generation order, commit, launch the unit
GenKfInsert(c) ==
    /\ req[c].pc = "insert"
    /\ req[c].op = "generate_keyframes"
    /\ LET r == req[c]
           normal == SelectSeq(r.segments, LAMBDA g : ~g.is_frame_0)
           rows == KeyframeRows(r.script, r.segments, nextKf)
           ids == [k \in 1..Len(rows) |-> rows[k].id]
       IN IF normal = <<>>
          THEN /\ req' = [req EXCEPT ![c] =
                            Done(r.op, r.script, "ValidationError", <<>>, r.deleted)]
               /\ UNCHANGED <<keyframes, nextKf, units>>
          ELSE /\ nextKf + Len(rows) - 1 <= MaxKfId
               /\ CanLaunch(1)
               /\ keyframes' = Merge(keyframes,
                                     [id \in Range(ids) |-> rows[id - nextKf + 1]])
               /\ nextKf' = nextKf + Len(rows)
               /\ units' = Launch(units, NewUnit("pipeline", ids))
               /\ req' = [req EXCEPT ![c] = Done(r.op, r.script, "ok", ids, r.deleted)]
    /\ UNCHANGED <<scripts, videos, nextVs, now>>

(***************************************************************************)
(* The keyframe jobs: _generate_keyframes_background with                  *)
(* _generate_single_keyframe_image_with_session, and                       *)
(* _regenerate_keyframe_background.                                        *)
(***************************************************************************)
\* every job of a run writing to the first row of the run
TargetFirst(unit) == unit.ids[1]

Target(unit) == unit.ids[unit.i]

\* a loop that passes over the row after a failed one
AdvanceSkips(unit, result) ==
    LET step == IF result = NoUrl THEN 2 ELSE 1
    IN IF unit.i + step > Len(unit.ids) THEN <<>>
       ELSE [unit EXCEPT !.i = @ + step, !.pc = "start", !.loaded = NoRow,
                         !.api = "none", !.call = "pending", !.polls = 0,
                         !.prev = IF result # NoUrl THEN result ELSE @]

\* the job of ids[i] has returned `result` (an image url or NoUrl)
Advance(unit, result) ==
    IF unit.i = Len(unit.ids) THEN <<>>
    ELSE [unit EXCEPT !.i = @ + 1, !.pc = "start", !.loaded = NoRow,
                      !.api = "none", !.call = "pending", !.polls = 0,
                      !.prev = IF result # NoUrl THEN result ELSE @]

\* previous_image_url handed to the job of the pipeline; a regenerate job
\* passes no reference
ReferenceFor(unit) == IF unit.kind = "pipeline" THEN unit.prev ELSE NoUrl

\* a job that creates the row again when it does not find it
KfJobBeginRecreating(unit) ==
    /\ unit.kind \in {"pipeline", "regen"}
    /\ unit.pc = "start"
    /\ LET id == Target(unit)
           row == IF id \in DOMAIN keyframes THEN keyframes[id]
                  ELSE NewKeyframe(id, "s1", SegId("segment", 0, ""), <<1>>)
       IN /\ keyframes' = Merge(keyframes, [x \in {id} |-> row])
          /\ units' = Step(units, unit,
                           [unit EXCEPT !.pc = "calling", !.loaded = Loaded(row)])
    /\ UNCHANGED <<scripts, videos, nextKf, nextVs, req, now>>

\* lines 236-298 / 488-508: read the row, then call image generation
KfJobBegin(unit) ==
    /\ unit.kind \in {"pipeline", "regen"}
    /\ unit.pc = "start"
    /\ LET id == Target(unit)
       IN IF id \notin DOMAIN keyframes
          THEN units' = Step(units, unit, Advance(unit, NoUrl))
          ELSE units' = Step(units, unit,
                            [unit EXCEPT !.pc = "calling",
                                         !.loaded = Loaded(keyframes[id])])
    /\ UNCHANGED <<scripts, keyframes, videos, nextKf, nextVs, req, now>>

\* the empty text, and the keywords extract_prompt_for_segment appends for
\* the first frame of the first segment
EmptyPrompt == <<>>

OpeningKeywords == <<0>>

\* script_parser.py lines 209-215
extract_prompt_for_segment(segment, is_first_frame) ==
    IF is_first_frame /\ segment.segment_id = SegId("segment", 0, "")
    THEN segment.content \o OpeningKeywords
    ELSE segment.content

\* lines 258-282: the prompt the pipeline job generates with and assigns
\* again on success: the stored one when it is not empty; for a
\* "_first_frame" row with an empty prompt the text extracted from the
\* segment of segment_map (the segments of the script, which no action
\* changes while a unit runs); the empty text otherwise
JobPrompt(unit, row) ==
    IF unit.loaded.prompt # EmptyPrompt THEN unit.loaded.prompt
    ELSE IF EndsWithFirstFrame(row.segment_id)
    THEN LET segments == parse_script(scripts[row.script_id])
             base == [row.segment_id EXCEPT !.suffix = ""]
             found == {k \in 1..Len(segments) : segments[k].segment_id = base}
         IN IF found = {} THEN EmptyPrompt
            ELSE extract_prompt_for_segment(
                    segments[CHOOSE k \in found : \A j \in found : j <= k], TRUE)
    ELSE EmptyPrompt

\* what the success path assigns before its commit (lines 330-333, 523-525)
CompletedColumns(unit, url) ==
    IF unit.kind = "pipeline"
    THEN [image_url |-> url, prompt |-> JobPrompt(unit, keyframes[Target(unit)]),
          status |-> COMPLETED, error_message |-> None]
    ELSE [image_url |-> url, status |-> COMPLETED, error_message |-> None]

\* what the except block assigns before its commit (lines 369-370, 551-552)
FailedColumns == [status |-> FAILED, error_message |-> JobError]

\* str(e) for the exception the generation call ended with; JobError stands
\* for the message of any other exception
ErrorMessage(unit) ==
    IF unit.call = "failed" THEN "generation failed: upstream reason"
    ELSE IF unit.call = "timeout" THEN "generation timed out"
    ELSE IF unit.call = "unconfigured" THEN "api key not configured"
    ELSE IF unit.call = "unsupported" THEN "unsupported model"
    ELSE IF unit.call = "http_error" THEN "http error"
    ELSE JobError

\* a job that returns the provider's url of the image, not the stored one
JobResultProvider(outcome, written, url) ==
    IF outcome = "success" /\ written THEN [kf |-> url.kf, by |-> "provider"]
    ELSE NoUrl

\* the value the job returns to the pipeline loop after its status write
JobResult(outcome, written, url) ==
    IF outcome = "success" /\ written THEN url ELSE NoUrl

\* a job that resets the videos of the keyframe's script when it writes
VideosReset(vids, script_id) ==
    [v \in DOMAIN vids |->
        IF vids[v].script_id = script_id
        THEN [vids[v] EXCEPT !.video_url = NoUrl, !.status = GENERATING]
        ELSE vids[v]]

\* the video_segments table after the commit of a keyframe job for a row
\* of script_id: the job's session holds the keyframe row and nothing else
VideosAfterKeyframeWrite(vids, script_id) ==
    vids

\* lines 300-380 / 510-560: the call returns or raises; the status write.
\* outcome "success": image generated and uploaded; "failure": an exception
\* was raised and the except block wrote `failed`; "unwritten": an exception
\* was raised and the status write of the except block failed as well.
KfJobEnd(unit, outcome) ==
    /\ unit.kind \in {"pipeline", "regen"}
    /\ unit.pc = "calling"
    /\ LET id == Target(unit)
           url == ImageUrl(id, unit.kind)
           present == id \in DOMAIN keyframes
           assigned == IF outcome = "success" THEN CompletedColumns(unit, url)
                       ELSE [FailedColumns EXCEPT !.error_message = ErrorMessage(unit)]
           written == present /\ outcome # "unwritten"
       IN /\ keyframes' = IF written
                          THEN [keyframes EXCEPT ![id] =
                                    Flush(keyframes[id], unit.loaded, assigned)]
                          ELSE keyframes
          /\ videos' = IF written
                       THEN VideosAfterKeyframeWrite(videos, keyframes[id].script_id)
                       ELSE videos
          /\ units' = Step(units, unit,
                          Advance(unit, JobResult(outcome, written, url)))
    /\ UNCHANGED <<scripts, nextKf, nextVs, req, now>>

\* a regenerate request that leaves the old error message on the row
RegenerateKeyframeKeepingError(id) ==
    /\ id \in DOMAIN keyframes
    /\ CanLaunch(1)
    /\ keyframes' = [keyframes EXCEPT ![id] =
                        Flush(@, Loaded(@), [status |-> GENERATING])]
    /\ units' = Launch(units, NewUnit("regen", <<id>>))
    /\ UNCHANGED <<scripts, videos, nextKf, nextVs, req, now>>

\* KeyframeService.regenerate_keyframe, lines 403-409: no row has the id
RegenerateKeyframeAbsent(c, id) ==
    /\ Ready(c)
    /\ id \notin DOMAIN keyframes
    /\ req' = [req EXCEPT ![c] =
                 Done("regenerate_keyframe", AbsentScript, "NotFoundError", <<>>, FALSE)]
    /\ UNCHANGED <<scripts, keyframes, videos, nextKf, nextVs, units, now>>

\* KeyframeService.regenerate_keyframe, lines 403-467: the row exists
RegenerateKeyframe(id) ==
    /\ id \in DOMAIN keyframes
    /\ CanLaunch(1)
    /\ keyframes' = [keyframes EXCEPT ![id] =
                        Flush(@, Loaded(@),
                              [status |-> GENERATING, error_message |-> None])]
    /\ units' = Launch(units, NewUnit("regen", <<id>>))
    /\ UNCHANGED <<scripts, videos, nextKf, nextVs, req, now>>

\* KeyframeService.update_keyframe_prompt, lines 562-594
UpdateKeyframePrompt(id, prompt) ==
    /\ id \in DOMAIN keyframes
    /\ keyframes' = [keyframes EXCEPT ![id] =
                        Flush(@, Loaded(@), [prompt |-> prompt])]
    /\ UNCHANGED <<scripts, videos, nextKf, nextVs, units, req, now>>

\* the blob-store url of the file the client uploads for keyframe id
UploadUrl(id) == [kf |-> id, by |-> "upload"]

\* KeyframeService.upload_keyframe_image, lines 596-644
UploadKeyframeImage(id) ==
    /\ id \in DOMAIN keyframes
    /\ keyframes' = [keyframes EXCEPT ![id] =
                        Flush(@, Loaded(@),
                              [image_url |-> UploadUrl(id), status |-> COMPLETED,
                               error_message |-> None])]
    /\ UNCHANGED <<scripts, videos, nextKf, nextVs, units, req, now>>

\* the staleness test with the threshold itself counted as stale
StaleKeyframesInclusive(rows) ==
    {id \in rows : /\ keyframes[id].status = GENERATING
                   /\ now - keyframes[id].updated_at >= STALE_KEYFRAME_TIMEOUT}

\* lines 673-697: the rows _refresh_stale_keyframes marks failed
StaleKeyframes(rows) ==
    {id \in rows : /\ keyframes[id].status = GENERATING
                   /\ now - keyframes[id].updated_at > STALE_KEYFRAME_TIMEOUT}

_refresh_stale_keyframes(rows) ==
    [id \in DOMAIN keyframes |->
        IF id \in StaleKeyframes(rows)
        THEN Flush(keyframes[id], Loaded(keyframes[id]),
                   [status |-> FAILED, error_message |-> TimeoutMsg])
        ELSE keyframes[id]]

\* KeyframeService.get_keyframes_by_script_id
ListKeyframes(s) ==
    /\ keyframes' = _refresh_stale_keyframes(KeyframesOf(keyframes, s))
    /\ UNCHANGED <<scripts, videos, nextKf, nextVs, units, req, now>>

(***************************************************************************)
(* segment_id as the string the database stores and sorts:                 *)
(* "<base>_<decimal n><suffix>", compared character by character.          *)
(***************************************************************************)
\* the characters the segment ids are made of, in code-point order
Alphabet == <<"0", "1", "2", "3", "4", "5", "6", "7", "8", "9", "_",
              "a", "e", "f", "g", "i", "m", "n", "r", "s", "t">>

Code(ch) == CHOOSE k \in 1..Len(Alphabet) : Alphabet[k] = ch

RECURSIVE Decimal(_)
\* str(n) for n >= 0
Decimal(n) ==
    IF n < 10 THEN <<Alphabet[n + 1]>>
    ELSE Decimal(n \div 10) \o <<Alphabet[(n % 10) + 1]>>

BaseChars(base) ==
    IF base = "segment" THEN <<"s", "e", "g", "m", "e", "n", "t">>
    ELSE <<"f", "r", "a", "m", "e">>

SuffixChars(suffix) ==
    IF suffix = "" THEN <<>>
    ELSE <<"_", "f", "i", "r", "s", "t", "_", "f", "r", "a", "m", "e">>

SegStr(sid) ==
    BaseChars(sid.base) \o <<"_">> \o Decimal(sid.n) \o SuffixChars(sid.suffix)

RECURSIVE StrLess(_, _)
\* a < b as strings
StrLess(a, b) ==
    IF b = <<>> THEN FALSE
    ELSE IF a = <<>> THEN TRUE
    ELSE IF Head(a) # Head(b) THEN Code(Head(a)) < Code(Head(b))
    ELSE StrLess(Tail(a), Tail(b))

\* ORDER BY keyframes.segment_id over the rows `ids`
OrderBySegmentId(ids) ==
    SortSeq(SeqOfSet(ids),
            LAMBDA a, b : StrLess(SegStr(keyframes[a].segment_id),
                                  SegStr(keyframes[b].segment_id)))

(***************************************************************************)
(* VideoService.generate_videos, in its two committed steps.               *)
(***************************************************************************)
NewVideoSegment(id, script_id, segment_index, first, last, prompt) ==
    [id |-> id, script_id |-> script_id, segment_index |-> segment_index,
     first_frame_url |-> first, last_frame_url |-> last, prompt |-> prompt,
     video_url |-> NoUrl, status |-> GENERATING, error_message |-> None,
     model |-> "veo3.1-fast", aspect_ratio |-> "16:9", duration |-> 6,
     updated_at |-> now]

LoadedVideo(row) ==
    [c \in {"video_url", "status", "error_message", "model"} |-> row[c]]

VideosOf(table, script_id) ==
    {id \in DOMAIN table : table[id].script_id = script_id}

\* lines 90-96: the completed keyframes of the script, as the query orders them
CompletedKeyframes(s) ==
    OrderBySegmentId({id \in KeyframesOf(keyframes, s) :
                        keyframes[id].status = COMPLETED})

\* lines 104-109: the keyframes that are no first frame
NormalKeyframes(kfs) ==
    SelectSeq(kfs, LAMBDA id : ~EndsWithFirstFrame(keyframes[id].segment_id))

\* lines 118-123: keyframe_map[first_frame_key], the empty set when absent
FirstFrameFor(kfs, first_segment) ==
    {id \in Range(kfs) : keyframes[id].segment_id =
                            FirstFrameOf(keyframes[first_segment].segment_id)}

\* video_configs with the prompt of the keyframe a video starts from
VideoConfigsSourcePrompt(kfs) ==
    LET normal == NormalKeyframes(kfs)
        first == CHOOSE id \in FirstFrameFor(kfs, normal[1]) : TRUE
    IN [k \in 1..Len(normal) |->
            [first_frame_url |-> IF k = 1 THEN keyframes[first].image_url
                                 ELSE keyframes[normal[k - 1]].image_url,
             last_frame_url |-> keyframes[normal[k]].image_url,
             prompt |-> IF k = 1 THEN keyframes[first].prompt
                        ELSE keyframes[normal[k - 1]].prompt]]

\* lines 115-145: video_configs, in segment_index order (index k - 1)
VideoConfigs(kfs) ==
    LET normal == NormalKeyframes(kfs)
        first == CHOOSE id \in FirstFrameFor(kfs, normal[1]) : TRUE
    IN [k \in 1..Len(normal) |->
            [first_frame_url |-> IF k = 1 THEN keyframes[first].image_url
                                 ELSE keyframes[normal[k - 1]].image_url,
             last_frame_url |-> keyframes[normal[k]].image_url,
             prompt |-> keyframes[normal[k]].prompt]]

\* lines 67-83: look the script up, delete its old video segments, commit
GenVidBegin(c, s) ==
    /\ Ready(c)
    /\ IF s \notin DOMAIN scripts
       THEN /\ req' = [req EXCEPT ![c] =
                         Done("generate_videos", s, "NotFoundError", <<>>, FALSE)]
            /\ UNCHANGED videos
       ELSE /\ videos' = Without(videos, VideosOf(videos, s))
            /\ req' = [req EXCEPT ![c] =
                         [pc |-> "insert", op |-> "generate_videos", script |-> s,
                          deleted |-> VideosOf(videos, s) # {}]]
    /\ UNCHANGED <<scripts, keyframes, nextKf, nextVs, units, now>>

\* lines 90-181: pair the completed keyframes, create the rows, commit,
\* launch the unit
GenVidInsert(c) ==
    /\ req[c].pc = "insert"
    /\ req[c].op = "generate_videos"
    /\ LET r == req[c]
           kfs == CompletedKeyframes(r.script)
           normal == NormalKeyframes(kfs)
       IN IF kfs = <<>> \/ normal = <<>> \/ FirstFrameFor(kfs, normal[1]) = {}
          THEN /\ req' = [req EXCEPT ![c] =
                            Done(r.op, r.script, "ValidationError", <<>>, r.deleted)]
               /\ UNCHANGED <<videos, nextVs, units>>
          ELSE LET configs == VideoConfigs(kfs)
                   ids == [k \in 1..Len(configs) |-> nextVs + k - 1]
               IN /\ nextVs + Len(configs) - 1 <= MaxVsId
                  /\ CanLaunch(1)
                  /\ videos' = Merge(videos,
                        [id \in Range(ids) |->
                            LET k == id - nextVs + 1
                            IN NewVideoSegment(id, r.script, k - 1,
                                               configs[k].first_frame_url,
                                               configs[k].last_frame_url,
                                               configs[k].prompt)])
                  /\ nextVs' = nextVs + Len(configs)
                  /\ units' = Launch(units, NewUnit("videos", ids))
                  /\ req' = [req EXCEPT ![c] =
                                Done(r.op, r.script, "ok", ids, r.deleted)]
    /\ UNCHANGED <<scripts, keyframes, nextKf, now>>

(***************************************************************************)
(* The video jobs: _generate_videos_background gathers one                 *)
(* _generate_single_video_with_session per row; regenerate_video_segment   *)
(* launches one.                                                           *)
(***************************************************************************)
\* the blob-store url of the video made for video segment id
VideoUrl(id) == [kf |-> id, by |-> "oss_video"]

\* lines 183-205: the launched unit starts one job per row, all concurrent
VidBatchStart(unit) ==
    /\ unit.kind = "videos"
    /\ CanLaunch(Len(unit.ids) - 1)
    /\ units' = (units (-) SetToBag({unit}))
                    (+) SetToBag({NewUnit("video", <<id>>) : id \in Range(unit.ids)})
    /\ UNCHANGED <<scripts, keyframes, videos, nextKf, nextVs, req, now>>

\* lines 216-236: read the row, then call video generation
VidJobBegin(unit) ==
    /\ unit.kind = "video"
    /\ unit.pc = "start"
    /\ LET id == Target(unit)
       IN IF id \notin DOMAIN videos
          THEN units' = Step(units, unit, <<>>)
          ELSE units' = Step(units, unit,
                            [unit EXCEPT !.pc = "calling",
                                         !.loaded = LoadedVideo(videos[id])])
    /\ UNCHANGED <<scripts, keyframes, videos, nextKf, nextVs, req, now>>

\* what the success path assigns before its commit (lines 262-265)
VideoCompletedColumns(id) ==
    [video_url |-> VideoUrl(id), status |-> COMPLETED, error_message |-> None]

\* lines 237-302: the call returns or raises; the status write, with the
\* outcomes of KfJobEnd
VidJobEnd(unit, outcome) ==
    /\ unit.kind = "video"
    /\ unit.pc = "calling"
    /\ LET id == Target(unit)
           assigned == IF outcome = "success" THEN VideoCompletedColumns(id)
                       ELSE [FailedColumns EXCEPT !.error_message = ErrorMessage(unit)]
       IN videos' = IF id \in DOMAIN videos /\ outcome # "unwritten"
                    THEN [videos EXCEPT ![id] =
                              Flush(videos[id], unit.loaded, assigned)]
                    ELSE videos
    /\ units' = Step(units, unit, <<>>)
    /\ UNCHANGED <<scripts, keyframes, nextKf, nextVs, req, now>>

\* the models a request can name
VideoModels == {"veo3.1-fast", "sora-2"}

\* a regenerate request that falls back to the default model, not the row's
RegenerateVideoSegmentDefault(id, model) ==
    /\ id \in DOMAIN videos
    /\ CanLaunch(1)
    /\ videos' = [videos EXCEPT ![id] =
                    Flush(@, LoadedVideo(@),
                          [status |-> GENERATING, error_message |-> None,
                           video_url |-> NoUrl,
                           model |-> IF model # None THEN model ELSE "veo3.1-fast"])]
    /\ units' = Launch(units, NewUnit("video", <<id>>))
    /\ UNCHANGED <<scripts, keyframes, nextKf, nextVs, req, now>>

\* VideoService.regenerate_video_segment with the optional model (None when
\* the request names none)
RegenerateVideoSegment(id, model) ==
    /\ id \in DOMAIN videos
    /\ CanLaunch(1)
    /\ videos' = [videos EXCEPT ![id] =
                    Flush(@, LoadedVideo(@),
                          IF model # None
                          THEN [status |-> GENERATING, error_message |-> None,
                                video_url |-> NoUrl, model |-> model]
                          ELSE [status |-> GENERATING, error_message |-> None,
                                video_url |-> NoUrl])]
    /\ units' = Launch(units, NewUnit("video", <<id>>))
    /\ UNCHANGED <<scripts, keyframes, nextKf, nextVs, req, now>>

\* VideoService.regenerate_video_segment, keeping the row's model
RegenerateVideo(id) == RegenerateVideoSegment(id, None)

\* VideoService.get_video_segments_by_script: the rows by segment_index
ListVideos(c, s) ==
    /\ Ready(c)
    /\ req' = [req EXCEPT ![c] =
                 Done("list_videos", s, "ok",
                      SortSeq(SeqOfSet(VideosOf(videos, s)),
                              LAMBDA a, b : videos[a].segment_index
                                                < videos[b].segment_index),
                      FALSE)]
    /\ UNCHANGED <<scripts, keyframes, videos, nextKf, nextVs, units, now>>

(***************************************************************************)
(* VideoService.export_videos.  The archive is a sequence of entries; an   *)
(* entry keeps, next to its file name, the segment it was made from.       *)
(***************************************************************************)
\* lines 588-594: the completed segments of the script by segment_index
CompletedVideos(s) ==
    SortSeq(SeqOfSet({id \in VideosOf(videos, s) : videos[id].status = COMPLETED}),
            LAMBDA a, b : videos[a].segment_index < videos[b].segment_index)

\* line 615: f'segment_{segment.segment_index}.mp4'
ArchiveName(segment_index) ==
    [base |-> "segment", n |-> segment_index, suffix |-> ".mp4"]

\* an archive with an entry for every segment that has a url, fetched or not
ArchiveEntriesAll(segs, fetchable) ==
    LET kept == SelectSeq(segs, LAMBDA id : videos[id].video_url # NoUrl)
    IN [k \in 1..Len(kept) |->
            [name |-> ArchiveName(videos[kept[k]].segment_index),
             segment |-> kept[k]]]

\* lines 604-628: the entries written for `segs`, of which the artifacts of
\* the segments in `fetchable` can be downloaded
ArchiveEntries(segs, fetchable) ==
    LET kept == SelectSeq(segs, LAMBDA id : /\ videos[id].video_url # NoUrl
                                            /\ id \in fetchable)
    IN [k \in 1..Len(kept) |->
            [name |-> ArchiveName(videos[kept[k]].segment_index),
             segment |-> kept[k]]]

\* an export that never refuses
ExportResultOk(segs) == "ok"

\* lines 596-597
ExportResult(segs) == IF segs = <<>> THEN "NotFoundError" ELSE "ok"

ExportDone(s, result, archive) ==
    [pc |-> "done", op |-> "export_videos", script |-> s, result |-> result,
     created |-> <<>>, deleted |-> FALSE, archive |-> archive,
     uploaded |-> result = "ok"]

\* lines 587-650
ExportVideos(c, s, fetchable) ==
    /\ Ready(c)
    /\ LET segs == CompletedVideos(s)
       IN req' = [req EXCEPT ![c] =
                    ExportDone(s, ExportResult(segs),
                               IF ExportResult(segs) = "ok"
                               THEN ArchiveEntries(segs, fetchable) ELSE <<>>)]
    /\ UNCHANGED <<scripts, keyframes, videos, nextKf, nextVs, units, now>>

(***************************************************************************)
(* The generation call of a job: the task is submitted to a provider and   *)
(* its status polled (image_generation_service.py, volc_jimeng_service.py, *)
(* video_service.py _call_sora_api / _call_veo_api).                       *)
(***************************************************************************)
\* image_generation_service.py 116 and 266
max_polls == 60

\* volc_jimeng_service.py 276
max_retries == 30

\* video_service.py 396 and 481
video_max_attempts == 60

ImageApis == {"nano_banana", "sora_image", "jimeng"}

VideoApis == {"sora", "veo"}

ApisOf(kind) == IF kind = "video" THEN VideoApis ELSE ImageApis

PollBound(api) ==
    IF api = "jimeng" THEN max_retries
    ELSE IF api \in VideoApis THEN video_max_attempts
    ELSE max_polls

PollAnswers == {"running", "succeeded", "failed"}

\* the dispatch on the model and the request that creates the task
SubmitTask(unit, api) ==
    /\ unit.pc = "calling"
    /\ unit.call = "pending"
    /\ api \in ApisOf(unit.kind)
    /\ units' = Step(units, unit, [unit EXCEPT !.api = api, !.call = "polling"])
    /\ UNCHANGED <<scripts, keyframes, videos, nextKf, nextVs, req, now>>

\* model.startswith('sora') / model.startswith('veo'), on the model names
\* the requests use
ModelFamily(model) ==
    IF model \in {"sora-2", "sora-2-pro"} THEN "sora"
    ELSE IF model \in {"veo3.1-fast", "veo3.1-pro"} THEN "veo"
    ELSE "other"

\* a sora request that carries the first frame
SubmitFramesFirst(api, row) ==
    IF api = "sora" THEN <<row.first_frame_url>>
    ELSE <<row.first_frame_url, row.last_frame_url>>

\* the frame urls in the submit request of a video call: payload['url'] for
\* sora, firstFrameUrl and lastFrameUrl for veo
SubmitFrames(api, row) ==
    IF api = "sora" THEN <<row.last_frame_url>>
    ELSE <<row.first_frame_url, row.last_frame_url>>

\* VideoService._call_video_generation_api: the credentials test, then the
\* dispatch on the model of the row and the submit request
CallVideoApi(unit, configured) ==
    /\ unit.kind = "video"
    /\ unit.pc = "calling"
    /\ unit.call = "pending"
    /\ LET family == ModelFamily(unit.loaded.model)
       IN units' = Step(units, unit,
                IF ~configured THEN [unit EXCEPT !.call = "unconfigured"]
                ELSE IF family = "other" THEN [unit EXCEPT !.call = "unsupported"]
                ELSE [unit EXCEPT !.api = family, !.call = "polling"])
    /\ UNCHANGED <<scripts, keyframes, videos, nextKf, nextVs, req, now>>

\* ImageGenerationService.generate_image: the dispatch on the model and the
\* submit request; only the jimeng service tests its credentials, the other
\* two send the request, which the provider refuses without a key
CallImageApi(unit, api, configured) ==
    /\ unit.kind \in {"pipeline", "regen"}
    /\ unit.pc = "calling"
    /\ unit.call = "pending"
    /\ api \in ImageApis
    /\ units' = Step(units, unit,
            IF configured THEN [unit EXCEPT !.api = api, !.call = "polling"]
            ELSE IF api = "jimeng" THEN [unit EXCEPT !.call = "unconfigured"]
            ELSE [unit EXCEPT !.api = api, !.call = "http_error"])
    /\ UNCHANGED <<scripts, keyframes, videos, nextKf, nextVs, req, now>>

\* one turn of the poll loop: a poll request and its answer; the loop is
\* left with a result, an error, or after the last turn with the timeout error
PollStatus(unit, answer) ==
    /\ unit.pc = "calling"
    /\ unit.call = "polling"
    /\ unit.polls < PollBound(unit.api)
    /\ units' = Step(units, unit,
                    [unit EXCEPT
                        !.polls = @ + 1,
                        !.call = IF answer # "running" THEN answer
                                 ELSE IF unit.polls + 1 >= PollBound(unit.api)
                                 THEN "timeout"
                                 ELSE "polling"])
    /\ UNCHANGED <<scripts, keyframes, videos, nextKf, nextVs, req, now>>

\* the outcomes a job can have once its call has ended: the success path
\* needs a result, and may still raise (download, upload, commit)
CallAllows(unit, outcome) ==
    /\ unit.call \in {"succeeded", "failed", "timeout", "unconfigured",
                     "unsupported", "http_error"}
    /\ outcome = "success" => unit.call = "succeeded"

PolledKfJobEnd(unit, outcome) == CallAllows(unit, outcome) /\ KfJobEnd(unit, outcome)

PolledVidJobEnd(unit, outcome) == CallAllows(unit, outcome) /\ VidJobEnd(unit, outcome)

(***************************************************************************)
(* retry_decorator (llm_service.py).  A wrapped call is a request whose    *)
(* record holds the decorator's arguments and the wrapper's locals;        *)
(* `calls` counts the invocations of the wrapped function, and the error   *)
(* of invocation k is ErrorOf(k).                                          *)
(***************************************************************************)
RECURSIVE Pow(_, _)
Pow(b, e) == IF e = 0 THEN 1 ELSE b * Pow(b, e - 1)

Min(a, b) == IF a <= b THEN a ELSE b

\* the exponential wait without its cap
WaitTimeUncapped(r) == r.wait_min * Pow(r.wait_multiplier, r.attempt - 1)

\* line 39: min(wait_min * (wait_multiplier ** (attempt - 1)), wait_max)
WaitTime(r) ==
    Min(r.wait_min * Pow(r.wait_multiplier, r.attempt - 1), r.wait_max)

ErrorOf(k) == [kind |-> "error", of |-> k]

\* the wrapper raising the error of the first invocation
RaisedFirst(r) == ErrorOf(1)

\* line 37: a bare `raise` inside the except block of the current invocation
Raised(r) == ErrorOf(r.calls)

\* the wrapper is called: line 26
RetryEnter(c, max_attempts, wait_multiplier, wait_min, wait_max) ==
    /\ Ready(c)
    /\ req' = [req EXCEPT ![c] =
                [pc |-> "loop", op |-> "retry", max_attempts |-> max_attempts,
                 wait_multiplier |-> wait_multiplier, wait_min |-> wait_min,
                 wait_max |-> wait_max, attempt |-> 0, calls |-> 0,
                 slept |-> 0, result |-> [kind |-> "pending", of |-> 0]]]
    /\ UNCHANGED <<scripts, keyframes, videos, nextKf, nextVs, units, now>>

\* lines 27-50: one turn of the while loop; `succeeds` is whether the
\* invocation of the wrapped function returns
RetryTurn(c, succeeds) ==
    /\ req[c].pc = "loop"
    /\ LET r == req[c]
           called == [r EXCEPT !.calls = @ + 1]
           failed == [called EXCEPT !.attempt = @ + 1]
       IN req' = [req EXCEPT ![c] =
                    IF ~(r.attempt < r.max_attempts)
                    THEN [r EXCEPT !.pc = "done",
                                   !.result = [kind |-> "none", of |-> 0]]
                    ELSE IF succeeds
                    THEN [called EXCEPT !.pc = "done",
                                        !.result = [kind |-> "ok", of |-> called.calls]]
                    ELSE IF failed.attempt >= r.max_attempts
                    THEN [failed EXCEPT !.pc = "done", !.result = Raised(failed)]
                    ELSE [failed EXCEPT !.slept = @ + WaitTime(failed)]]
    /\ UNCHANGED <<scripts, keyframes, videos, nextKf, nextVs, units, now>>

(***************************************************************************)
(* ScriptService.parse_script_content (script_service.py).  A paragraph is *)
(* a record: kind "colon" is the text "(a:b - c:d) ...", kind "seconds"    *)
(* the text "a-cs ...", kinds "frame0" and "last_frame" the paragraphs     *)
(* that start with those labels, kind "plain" any other text.              *)
(***************************************************************************)
\* the times of "(a:b - c:d)" read as minutes and seconds in every case
ColonTimesStandard(p) == <<p.a * 60 + p.b, p.c * 60 + p.d>>

\* lines 74-84: the times of "(a:b - c:d)"
ColonTimes(p) ==
    IF p.b = 0 /\ p.d = 0 /\ p.a < 60 /\ p.c < 60
    THEN <<p.a, p.c>>
    ELSE <<p.a * 60 + p.b, p.c * 60 + p.d>>

\* lines 46-142: one segment per paragraph that is no frame label, numbered
\* and ordered as the paragraphs are
parse_script_content(content, segment_duration) ==
    LET kept == SelectSeq(content, LAMBDA p : p.kind \notin {"frame0", "last_frame"})
    IN [k \in 1..Len(kept) |->
            LET p == kept[k]
                times == IF p.kind = "colon" THEN ColonTimes(p)
                         ELSE IF p.kind = "seconds" THEN <<p.a, p.c>>
                         ELSE <<(k - 1) * segment_duration, k * segment_duration>>
            IN [id |-> k - 1, time_start |-> times[1], time_end |-> times[2],
                content |-> p]]

\* a call of the segmenter
ParseScriptContent(c, content, segment_duration) ==
    /\ Ready(c)
    /\ req' = [req EXCEPT ![c] =
                [pc |-> "done", op |-> "parse_script_content", content |-> content,
                 segments |-> parse_script_content(content, segment_duration)]]
    /\ UNCHANGED <<scripts, keyframes, videos, nextKf, nextVs, units, now>>

(***************************************************************************)
(* The environment: time passes, the process restarts (every asyncio task  *)
(* and every request in flight is lost), a script is edited.               *)
(***************************************************************************)
Tick ==
    /\ now < MaxTime
    /\ now' = now + 1
    /\ UNCHANGED <<scripts, keyframes, videos, nextKf, nextVs, units, req>>

Restart ==
    /\ units # EmptyBag
    /\ units' = EmptyBag
    /\ req' = [c \in DOMAIN req |-> IF req[c].pc = "insert" THEN Idle ELSE req[c]]
    /\ UNCHANGED <<scripts, keyframes, videos, nextKf, nextVs, now>>

\* ScriptService.update_script
UpdateScript(s, content) ==
    /\ s \in DOMAIN scripts
    /\ scripts[s] # content
    /\ scripts' = [scripts EXCEPT ![s] = content]
    /\ UNCHANGED <<keyframes, videos, nextKf, nextVs, units, req, now>>

(***************************************************************************)
(* Spec: the keyframe engine on one script with an opening frame and one   *)
(* body segment: generate requests, the pipeline, regenerate requests and  *)
(* their jobs, process restarts.  The clock stands still.                  *)
(***************************************************************************)
ShortScript == <<"frame0", "time_colon">>

ScriptIds == {"s1"}

Clients == {"c1"}

\* how a generation job can end
Outcomes == {"success", "failure", "unwritten"}

InitWith(contents) ==
    /\ scripts \in [ScriptIds -> contents]
    /\ keyframes = <<>>
    /\ videos = <<>>
    /\ nextKf = 1
    /\ nextVs = 1
    /\ units = EmptyBag
    /\ req = [c \in Clients |-> Idle]
    /\ now = 0

Init == InitWith({ShortScript})

Next ==
    \/ \E c \in Clients, s \in ScriptIds \cup {AbsentScript} : GenKfBegin(c, s)
    \/ \E c \in Clients : GenKfInsert(c)
    \/ \E unit \in BagToSet(units) : KfJobBegin(unit)
    \/ \E unit \in BagToSet(units), o \in Outcomes : KfJobEnd(unit, o)
    \/ \E id \in DOMAIN keyframes : RegenerateKeyframe(id)
    \/ Restart

Spec == Init /\ [][Next]_vars

(***************************************************************************)
(* SpecChain: one pipeline run over an opening frame and two body          *)
(* segments, every job ending in any of its outcomes.                      *)
(***************************************************************************)
ChainScripts == {<<"frame0", "time_colon", "sec_paren">>,
                 <<"time_colon", "sec_paren", "sec_bare">>}

InitChain == InitWith(ChainScripts)

NextChain ==
    \/ \E c \in Clients, s \in ScriptIds : GenKfBegin(c, s)
    \/ \E c \in Clients : GenKfInsert(c)
    \/ \E unit \in BagToSet(units) : KfJobBegin(unit)
    \/ \E unit \in BagToSet(units), o \in Outcomes : KfJobEnd(unit, o)
    \/ Restart

SpecChain == InitChain /\ [][NextChain]_vars

(***************************************************************************)
(* SpecClock: the keyframe engine with the clock running and list-reads    *)
(* (the reaper): one generate request, its pipeline, regenerate requests   *)
(* one at a time.                                                          *)
(***************************************************************************)
\* the client asks for one regeneration at a time
NoRegenInFlight == \A unit \in BagToSet(units) : unit.kind # "regen"

NextClock ==
    \/ \E c \in Clients, s \in ScriptIds : (nextKf = 1 /\ GenKfBegin(c, s))
    \/ \E c \in Clients : GenKfInsert(c)
    \/ \E unit \in BagToSet(units) : KfJobBegin(unit)
    \/ \E unit \in BagToSet(units), o \in Outcomes : KfJobEnd(unit, o)
    \/ \E id \in DOMAIN keyframes : (NoRegenInFlight /\ RegenerateKeyframe(id))
    \/ \E s \in ScriptIds : ListKeyframes(s)
    \/ Tick

SpecClock == Init /\ [][NextClock]_vars

(***************************************************************************)
(* SpecReaper: one generate request, its pipeline, the clock and           *)
(* list-reads; nobody asks for a regeneration.                             *)
(***************************************************************************)
NextReaper ==
    \/ \E c \in Clients, s \in ScriptIds : (nextKf = 1 /\ GenKfBegin(c, s))
    \/ \E c \in Clients : GenKfInsert(c)
    \/ \E unit \in BagToSet(units) : KfJobBegin(unit)
    \/ \E unit \in BagToSet(units), o \in Outcomes : KfJobEnd(unit, o)
    \/ \E s \in ScriptIds : ListKeyframes(s)
    \/ Tick

SpecReaper == Init /\ [][NextReaper]_vars

(***************************************************************************)
(* SpecGen: generate requests on a script of any content of up to MaxParas *)
(* paragraphs, which may be edited down between two requests.  The         *)
(* launched units do not run.                                              *)
(***************************************************************************)
AllContents == UNION {[1..n -> ParaKinds] : n \in 0..MaxParas}

OpeningOnly == <<"frame0">>

EditedContents == {OpeningOnly, <<>>}

InitGen == InitWith(AllContents)

NextGen ==
    \/ \E c \in Clients, s \in ScriptIds \cup {AbsentScript} : GenKfBegin(c, s)
    \/ \E c \in Clients : GenKfInsert(c)
    \/ \E s \in ScriptIds, content \in EditedContents : UpdateScript(s, content)

SpecGen == InitGen /\ [][NextGen]_vars

(***************************************************************************)
(* SpecPairs: generate_videos on a script with an opening frame and up to  *)
(* MaxBody body segments whose keyframe pipeline has run, every keyframe   *)
(* ended completed or failed.                                              *)
(***************************************************************************)
\* a script with an opening frame and n body segments
LongScript(n) == <<"frame0">> \o [k \in 1..n |-> "time_colon"]

\* the keyframes of script s after generate_keyframes and a pipeline run
\* in which the jobs of the rows in `done` succeeded and the others failed
KeyframesAfterRun(s, content, done) ==
    LET rows == KeyframeRows(s, parse_script(content), 1)
    IN [id \in 1..Len(rows) |->
            IF id \in done
            THEN [rows[id] EXCEPT !.status = COMPLETED,
                                  !.image_url = ImageUrl(id, "pipeline")]
            ELSE [rows[id] EXCEPT !.status = FAILED,
                                  !.error_message = JobError]]

InitAfterRun(sizes, allDone) ==
    /\ now = 0
    /\ videos = <<>>
    /\ nextVs = 1
    /\ units = EmptyBag
    /\ req = [c \in Clients |-> Idle]
    /\ \E n \in sizes :
        \E done \in (IF allDone THEN {1..(n + 1)} ELSE SUBSET (1..(n + 1))) :
            /\ scripts = [s \in ScriptIds |-> LongScript(n)]
            /\ keyframes = KeyframesAfterRun("s1", LongScript(n), done)
            /\ nextKf = n + 2

InitPairs == InitAfterRun(1..MaxBody, FALSE)

NextPairs ==
    \/ \E c \in Clients, s \in ScriptIds \cup {AbsentScript} : GenVidBegin(c, s)
    \/ \E c \in Clients : GenVidInsert(c)

SpecPairs == InitPairs /\ [][NextPairs]_vars

(***************************************************************************)
(* SpecVideo: the video engine on a script with completed keyframes: one   *)
(* generate request, its jobs, regenerate requests one at a time,          *)
(* list-reads, the clock, process restarts.                                *)
(***************************************************************************)
MaxPairs == 2

InitVideo == InitAfterRun(1..MaxPairs, TRUE)

NoVideoJobInFlight == units = EmptyBag

NextVideo ==
    \/ \E c \in Clients, s \in ScriptIds : (nextVs = 1 /\ GenVidBegin(c, s))
    \/ \E c \in Clients : GenVidInsert(c)
    \/ \E unit \in BagToSet(units) : VidBatchStart(unit)
    \/ \E unit \in BagToSet(units) : VidJobBegin(unit)
    \/ \E unit \in BagToSet(units), o \in Outcomes : VidJobEnd(unit, o)
    \/ \E id \in DOMAIN videos : (NoVideoJobInFlight /\ RegenerateVideo(id))
    \/ \E c \in Clients, s \in ScriptIds : ListVideos(c, s)
    \/ Tick
    \/ Restart

SpecVideo == InitVideo /\ [][NextVideo]_vars

(***************************************************************************)
(* SpecRedo: generate_videos requests on a script whose keyframe pipeline  *)
(* has run, while keyframes are being regenerated.                         *)
(***************************************************************************)
InitRedo == InitAfterRun(1..MaxPairs, FALSE)

NextRedo ==
    \/ \E c \in Clients, s \in ScriptIds \cup {AbsentScript} : GenVidBegin(c, s)
    \/ \E c \in Clients : GenVidInsert(c)
    \/ \E id \in DOMAIN keyframes : (NoRegenInFlight /\ RegenerateKeyframe(id))
    \/ \E unit \in BagToSet(units) : KfJobBegin(unit)
    \/ \E unit \in BagToSet(units), o \in Outcomes : KfJobEnd(unit, o)
    \/ Restart

SpecRedo == InitRedo /\ [][NextRedo]_vars

(***************************************************************************)
(* SpecRerun: generate requests one after the other on a script that is    *)
(* not edited; the process may restart.                                    *)
(***************************************************************************)
NextRerun ==
    \/ \E c \in Clients, s \in ScriptIds : GenKfBegin(c, s)
    \/ \E c \in Clients : GenKfInsert(c)
    \/ Restart

SpecRerun == InitGen /\ [][NextRerun]_vars

(***************************************************************************)
(* SpecRace: two clients send generate requests for the same script, the   *)
(* committed steps of the two requests interleaving freely; either the     *)
(* script has no rows yet, or its keyframe pipeline has run.               *)
(***************************************************************************)
RaceClients == {"c1", "c2"}

InitRace ==
    /\ now = 0
    /\ videos = <<>>
    /\ nextVs = 1
    /\ units = EmptyBag
    /\ req = [c \in RaceClients |-> Idle]
    /\ scripts = [s \in ScriptIds |-> ShortScript]
    /\ \/ keyframes = <<>> /\ nextKf = 1
       \/ \E done \in SUBSET (1..2) :
            /\ keyframes = KeyframesAfterRun("s1", ShortScript, done)
            /\ nextKf = Cardinality(DOMAIN keyframes) + 1

NextRace ==
    \/ \E c \in RaceClients, s \in ScriptIds : GenKfBegin(c, s)
    \/ \E c \in RaceClients : GenKfInsert(c)
    \/ \E c \in RaceClients, s \in ScriptIds : GenVidBegin(c, s)
    \/ \E c \in RaceClients : GenVidInsert(c)
    \/ Restart

SpecRace == InitRace /\ [][NextRace]_vars

(***************************************************************************)
(* SpecExport: export requests on a script with up to MaxExport video      *)
(* segments whose jobs have ended completed or failed, or have died.       *)
(***************************************************************************)
MaxExport == 4

\* the rows generate_videos creates for script s, first id `first`
VideoRows(s, first) ==
    LET configs == VideoConfigs(CompletedKeyframes(s))
    IN [k \in 1..Len(configs) |->
            NewVideoSegment(first + k - 1, s, k - 1, configs[k].first_frame_url,
                            configs[k].last_frame_url, configs[k].prompt)]

\* the video segments of script s after generate_videos and its jobs, the
\* job of row id having left the status outcome[id]
VideosAfterJobs(s, outcome) ==
    LET rows == VideoRows(s, 1)
    IN [id \in 1..Len(rows) |->
            IF outcome[id] = COMPLETED
            THEN [rows[id] EXCEPT !.status = COMPLETED, !.video_url = VideoUrl(id)]
            ELSE IF outcome[id] = FAILED
            THEN [rows[id] EXCEPT !.status = FAILED, !.error_message = JobError]
            ELSE rows[id]]

InitExport ==
    /\ now = 0
    /\ units = EmptyBag
    /\ req = [c \in Clients |-> Idle]
    /\ \E n \in 1..MaxExport :
        /\ nextVs = n + 1
        /\ scripts = [s \in ScriptIds |-> LongScript(n)]
        /\ keyframes = KeyframesAfterRun("s1", LongScript(n), 1..(n + 1))
        /\ nextKf = n + 2
        /\ \E outcome \in [1..n -> {COMPLETED, FAILED, GENERATING}] :
                videos = VideosAfterJobs("s1", outcome)

NextExport ==
    \E c \in Clients, s \in ScriptIds \cup {AbsentScript} :
        \E fetchable \in SUBSET VideosOf(videos, s) : ExportVideos(c, s, fetchable)

SpecExport == InitExport /\ [][NextExport]_vars

(***************************************************************************)
(* SpecRetry: calls of a function wrapped by retry_decorator, with every   *)
(* choice of arguments up to the bounds and every outcome of every         *)
(* invocation.                                                             *)
(***************************************************************************)
MaxAttempts == 4

MaxWait == 3

InitRetry == InitWith({ShortScript})

NextRetry ==
    \/ \E c \in Clients, max_attempts \in 0..MaxAttempts,
          wait_multiplier \in 1..MaxWait, wait_min \in 1..MaxWait,
          wait_max \in 1..MaxWait :
            RetryEnter(c, max_attempts, wait_multiplier, wait_min, wait_max)
    \/ \E c \in Clients, succeeds \in BOOLEAN : RetryTurn(c, succeeds)

SpecRetry == InitRetry /\ [][NextRetry]_vars

(***************************************************************************)
(* SpecPoll: the generation calls with their poll loops: on a script whose *)
(* keyframes are completed, keyframes are regenerated and the videos       *)
(* generated and regenerated, one job at a time.                           *)
(***************************************************************************)
InitPoll == InitAfterRun({1}, TRUE)

NextPoll ==
    \/ \E id \in DOMAIN keyframes : (units = EmptyBag /\ RegenerateKeyframe(id))
    \/ \E c \in Clients, s \in ScriptIds : (nextVs = 1 /\ GenVidBegin(c, s))
    \/ \E c \in Clients : GenVidInsert(c)
    \/ \E unit \in BagToSet(units) : VidBatchStart(unit)
    \/ \E id \in DOMAIN videos : (units = EmptyBag /\ RegenerateVideo(id))
    \/ \E unit \in BagToSet(units) : KfJobBegin(unit)
    \/ \E unit \in BagToSet(units) : VidJobBegin(unit)
    \/ \E unit \in BagToSet(units), api \in ImageApis \cup VideoApis :
            SubmitTask(unit, api)
    \/ \E unit \in BagToSet(units), answer \in PollAnswers : PollStatus(unit, answer)
    \/ \E unit \in BagToSet(units), o \in Outcomes : PolledKfJobEnd(unit, o)
    \/ \E unit \in BagToSet(units), o \in Outcomes : PolledVidJobEnd(unit, o)

SpecPoll == InitPoll /\ [][NextPoll]_vars

(***************************************************************************)
(* SpecTwo: two scripts side by side: keyframes and videos are generated   *)
(* and regenerated for both, the jobs of the two scripts interleaving; a   *)
(* row is regenerated while no other job is under way.                     *)
(***************************************************************************)
TwoScripts == {"s1", "s2"}

InitTwo ==
    /\ now = 0
    /\ scripts = [s \in TwoScripts |-> ShortScript]
    /\ keyframes = <<>>
    /\ videos = <<>>
    /\ nextKf = 1
    /\ nextVs = 1
    /\ units = EmptyBag
    /\ req = [c \in Clients |-> Idle]

NextTwo ==
    \/ \E c \in Clients, s \in TwoScripts : GenKfBegin(c, s)
    \/ \E c \in Clients : GenKfInsert(c)
    \/ \E unit \in BagToSet(units) : KfJobBegin(unit)
    \/ \E unit \in BagToSet(units), o \in Outcomes : KfJobEnd(unit, o)
    \/ \E id \in DOMAIN keyframes : (units = EmptyBag /\ RegenerateKeyframe(id))
    \/ \E c \in Clients, s \in TwoScripts :
            (nextVs <= Cardinality(TwoScripts) /\ GenVidBegin(c, s))
    \/ \E c \in Clients : GenVidInsert(c)
    \/ \E unit \in BagToSet(units) : VidBatchStart(unit)
    \/ \E unit \in BagToSet(units) : VidJobBegin(unit)
    \/ \E unit \in BagToSet(units), o \in Outcomes : VidJobEnd(unit, o)
    \/ \E id \in DOMAIN videos : (units = EmptyBag /\ RegenerateVideo(id))

SpecTwo == InitTwo /\ [][NextTwo]_vars

(***************************************************************************)
(* SpecSegment: one call of the script segmenter on every content of one   *)
(* or two paragraphs, the time ranges drawn from values on both sides of   *)
(* each test of the conversion.                                            *)
(***************************************************************************)
Minutes == {0, 1, 6, 59, 60}

Seconds == {0, 6, 12}

Paragraph(kind, a, b, c, d) == [kind |-> kind, a |-> a, b |-> b, c |-> c, d |-> d]

Paragraphs ==
    {Paragraph("colon", a, b, c, d) : a \in Minutes, b \in Seconds,
                                      c \in Minutes, d \in Seconds}
        \cup {Paragraph("seconds", 0, 0, 6, 0), Paragraph("frame0", 0, 0, 0, 0),
              Paragraph("last_frame", 0, 0, 0, 0), Paragraph("plain", 0, 0, 0, 0)}

SegmentContents ==
    {<<p>> : p \in Paragraphs} \cup {<<p, q>> : p \in Paragraphs, q \in Paragraphs}

SegmentDurations == {5, 6}

InitSegment == InitWith({ShortScript})

NextSegment ==
    \E c \in Clients :
        /\ req[c] = Idle
        /\ \E content \in SegmentContents, d \in SegmentDurations :
                ParseScriptContent(c, content, d)

SpecSegment == InitSegment /\ [][NextSegment]_vars

(***************************************************************************)
(* SpecRegen: regenerate requests, for ids with and without a row, on a    *)
(* script of two keyframes whose pipeline has run; the regenerate jobs,    *)
(* several at a time.                                                      *)
(***************************************************************************)
InitRegen == InitAfterRun({1}, FALSE)

NextRegen ==
    \/ \E id \in 1..MaxKfId : RegenerateKeyframe(id)
    \/ \E c \in Clients, id \in 1..MaxKfId : RegenerateKeyframeAbsent(c, id)
    \/ \E unit \in BagToSet(units) : KfJobBegin(unit)
    \/ \E unit \in BagToSet(units), o \in Outcomes : KfJobEnd(unit, o)

SpecRegen == InitRegen /\ [][NextRegen]_vars

(***************************************************************************)
(* SpecRevideo: on a script with completed keyframes the videos are        *)
(* generated once and their segments regenerated, with and without a model *)
(* in the request, a request coming while at most one job is under way.   *)
(***************************************************************************)
NextRevideo ==
    \/ \E c \in Clients, s \in ScriptIds : (nextVs = 1 /\ GenVidBegin(c, s))
    \/ \E c \in Clients : GenVidInsert(c)
    \/ \E unit \in BagToSet(units) : VidBatchStart(unit)
    \/ \E unit \in BagToSet(units) : VidJobBegin(unit)
    \/ \E unit \in BagToSet(units), o \in Outcomes : VidJobEnd(unit, o)
    \/ \E id \in DOMAIN videos, model \in VideoModels \cup {None} :
            (BagCardinality(units) <= 1 /\ RegenerateVideoSegment(id, model))

SpecRevideo == InitVideo /\ [][NextRevideo]_vars

(***************************************************************************)
(* SpecCall: the generation calls from the credentials test on: on a       *)
(* script of two completed keyframes, keyframes are regenerated and the    *)
(* video generated and regenerated under every model name, one job at a    *)
(* time, with and without credentials.                                     *)
(***************************************************************************)
CallModels == {"veo3.1-fast", "sora-2", "kling-v1", None}

NextCall ==
    \/ \E id \in DOMAIN keyframes : (units = EmptyBag /\ RegenerateKeyframe(id))
    \/ \E c \in Clients, s \in ScriptIds : (nextVs = 1 /\ GenVidBegin(c, s))
    \/ \E c \in Clients : GenVidInsert(c)
    \/ \E unit \in BagToSet(units) : VidBatchStart(unit)
    \/ \E id \in DOMAIN videos, model \in CallModels :
            (units = EmptyBag /\ RegenerateVideoSegment(id, model))
    \/ \E unit \in BagToSet(units) : KfJobBegin(unit)
    \/ \E unit \in BagToSet(units) : VidJobBegin(unit)
    \/ \E unit \in BagToSet(units), api \in ImageApis, configured \in BOOLEAN :
            CallImageApi(unit, api, configured)
    \/ \E unit \in BagToSet(units), configured \in BOOLEAN :
            CallVideoApi(unit, configured)
    \/ \E unit \in BagToSet(units), answer \in PollAnswers : PollStatus(unit, answer)
    \/ \E unit \in BagToSet(units), o \in Outcomes : PolledKfJobEnd(unit, o)
    \/ \E unit \in BagToSet(units), o \in Outcomes : PolledVidJobEnd(unit, o)

SpecCall == InitPoll /\ [][NextCall]_vars

(***************************************************************************)
(* SpecGone: rows deleted under their units: on a script of two completed  *)
(* keyframes, generate_keyframes and generate_videos requests arrive while *)
(* pipelines, regenerate jobs and video jobs are in flight.                *)
(***************************************************************************)
NextGone ==
    \/ \E c \in Clients, s \in ScriptIds : GenKfBegin(c, s)
    \/ \E c \in Clients : GenKfInsert(c)
    \/ \E id \in DOMAIN keyframes : (units = EmptyBag /\ RegenerateKeyframe(id))
    \/ \E unit \in BagToSet(units) : KfJobBegin(unit)
    \/ \E unit \in BagToSet(units), o \in Outcomes : KfJobEnd(unit, o)
    \/ \E c \in Clients, s \in ScriptIds : (nextVs <= 2 /\ GenVidBegin(c, s))
    \/ \E c \in Clients : GenVidInsert(c)
    \/ \E unit \in BagToSet(units) : VidBatchStart(unit)
    \/ \E unit \in BagToSet(units) : VidJobBegin(unit)
    \/ \E unit \in BagToSet(units), o \in Outcomes : VidJobEnd(unit, o)

SpecGone == InitPoll /\ [][NextGone]_vars

(***************************************************************************)
(* SpecUpload: one generate request and its pipeline, regenerate jobs one  *)
(* at a time, and the client uploading an image for a keyframe at any      *)
(* moment.                                                                 *)
(***************************************************************************)
NextUpload ==
    \/ \E c \in Clients, s \in ScriptIds : (nextKf = 1 /\ GenKfBegin(c, s))
    \/ \E c \in Clients : GenKfInsert(c)
    \/ \E unit \in BagToSet(units) : KfJobBegin(unit)
    \/ \E unit \in BagToSet(units), o \in Outcomes : KfJobEnd(unit, o)
    \/ \E id \in DOMAIN keyframes : (units = EmptyBag /\ RegenerateKeyframe(id))
    \/ \E id \in DOMAIN keyframes : UploadKeyframeImage(id)

SpecUpload == Init /\ [][NextUpload]_vars

(***************************************************************************)
(* SpecPrompt: one generate request and its pipeline, regenerate jobs one  *)
(* at a time, and the client editing the prompts of the keyframes at any   *)
(* moment, also to the empty text.                                         *)
(***************************************************************************)
UserPrompts == {EmptyPrompt, <<9>>}

NextPrompt ==
    \/ \E c \in Clients, s \in ScriptIds : (nextKf = 1 /\ GenKfBegin(c, s))
    \/ \E c \in Clients : GenKfInsert(c)
    \/ \E unit \in BagToSet(units) : KfJobBegin(unit)
    \/ \E unit \in BagToSet(units), o \in Outcomes : KfJobEnd(unit, o)
    \/ \E id \in DOMAIN keyframes : (units = EmptyBag /\ RegenerateKeyframe(id))
    \/ \E id \in DOMAIN keyframes, prompt \in UserPrompts :
            UpdateKeyframePrompt(id, prompt)

SpecPrompt == Init /\ [][NextPrompt]_vars

(***************************************************************************)
(* Properties.                                                             *)
(***************************************************************************)
Terminal == {COMPLETED, FAILED}

\* the units whose job for row id of `table` ("keyframes" or "videos") has
\* loaded the row and has not yet written its terminal status
ActiveJobs(table, id) ==
    LET kinds == IF table = "keyframes" THEN {"pipeline", "regen"} ELSE {"video"}
        on == {unit \in BagToSet(units) :
                    /\ unit.kind \in kinds
                    /\ unit.pc = "calling"
                    /\ Target(unit) = id}
    IN BagCardinality([unit \in on |-> units[unit]])

AtMostOneActiveJob ==
    /\ \A id \in DOMAIN keyframes : ActiveJobs("keyframes", id) <= 1
    /\ \A id \in DOMAIN videos : ActiveJobs("videos", id) <= 1

\* a step that writes a terminal status to a row finds the row `generating`
EndsAnEntry(old, new) ==
    \A id \in (DOMAIN old) \cap (DOMAIN new) :
        (new[id] # old[id] /\ new[id].status \in Terminal)
            => old[id].status = GENERATING

\* C1: under any interleaving of generate and regenerate requests every
\* keyframe row and every video-segment row has at most one active
\* background job, and each entry of a row into `generating` is ended by the
\* write of exactly one background unit (no unit writes a terminal status to
\* a row whose entry another unit has already ended).
C1_OneActiveJobPerRow ==
    /\ []AtMostOneActiveJob
    /\ [][EndsAnEntry(keyframes, keyframes') /\ EndsAnEntry(videos, videos')]_vars

\* a regenerate request for keyframe id has been made and its unit is alive
RegenInFlight(id) ==
    \E unit \in BagToSet(units) : unit.kind = "regen" /\ Target(unit) = id

\* C2: once a keyframe is `completed` or `failed` its status does not change
\* again, unless by a regenerate request for that keyframe (the step that
\* sets it `generating`, or a write of the unit that request launched) or by
\* a new generate request (which deletes the row).
C2_TerminalStatusIsFinal ==
    [][\A id \in (DOMAIN keyframes) \cap (DOMAIN keyframes') :
            (/\ keyframes[id].status \in Terminal
             /\ keyframes'[id].status # keyframes[id].status)
                => (keyframes'[id].status = GENERATING \/ RegenInFlight(id))]_vars

\* the pipeline unit issues, in this step, the image-generation call of the
\* keyframe at position unit.i
IssuesCall(unit) ==
    /\ unit.kind = "pipeline"
    /\ KfJobBegin(unit)
    /\ Target(unit) \in DOMAIN keyframes

\* C3: within one pipeline run the image-generation call of the keyframe at
\* position k+1 is never issued while the row of the keyframe at position k
\* is still `generating`.
C3_NextFrameAfterTerminal ==
    [][\A unit \in BagToSet(units) :
            (IssuesCall(unit) /\ unit.i > 1 /\ unit.ids[unit.i - 1] \in DOMAIN keyframes)
                => keyframes[unit.ids[unit.i - 1]].status \in Terminal]_vars

\* the job of the pipeline unit ends, in this step, without an image
JobFails(unit) ==
    /\ unit.kind = "pipeline"
    /\ KfJobEnd(unit, "failure") \/ KfJobEnd(unit, "unwritten")

\* C4: if the job of frame i fails, the job of frame i+1 is still invoked,
\* and its image-generation call is made with no reference image, whatever
\* the outcome of the frames before i.
C4_NoReferenceAfterFailure ==
    /\ [][\A unit \in BagToSet(units) :
            (JobFails(unit) /\ unit.i < Len(unit.ids))
                => \E next \in BagToSet(units') :
                        /\ next.ids = unit.ids
                        /\ next.i = unit.i + 1
                        /\ next.pc = "start"]_vars
    /\ [][\A unit \in BagToSet(units) :
            (/\ IssuesCall(unit)
             /\ unit.i > 1
             /\ unit.ids[unit.i - 1] \in DOMAIN keyframes
             /\ keyframes[unit.ids[unit.i - 1]].status = FAILED)
                => ReferenceFor(unit) = NoUrl]_vars

\* the table a list-read of script s leaves behind
AfterListRead(s) == _refresh_stale_keyframes(KeyframesOf(keyframes, s))

\* C7: a list-read of a script's keyframes sets every keyframe of the script
\* that is `generating` with updatedAt more than the threshold in the past
\* to `failed` with the timeout message, and leaves every other keyframe
\* (generating within the threshold, or not generating) unchanged.
C7_ReaperOnListRead ==
    \A s \in ScriptIds : \A id \in DOMAIN keyframes :
        IF /\ keyframes[id].script_id = s
           /\ keyframes[id].status = GENERATING
           /\ now - keyframes[id].updated_at > STALE_KEYFRAME_TIMEOUT
        THEN /\ AfterListRead(s)[id].status = FAILED
             /\ AfterListRead(s)[id].error_message = TimeoutMsg
        ELSE AfterListRead(s)[id] = keyframes[id]

\* a list-read has failed a stale keyframe and left a fresh `generating` one
C7_Witness ==
    \E a, b \in DOMAIN keyframes :
        /\ keyframes[a].status = FAILED
        /\ keyframes[a].error_message = TimeoutMsg
        /\ keyframes[b].script_id = keyframes[a].script_id
        /\ keyframes[b].status = GENERATING
        /\ now - keyframes[b].updated_at = STALE_KEYFRAME_TIMEOUT

C10_FailedRequestChangesNothing ==
    \A c \in Clients :
        (/\ req[c].pc = "done"
         /\ req[c].op = "generate_keyframes"
         /\ req[c].result \in {"ValidationError", "NotFoundError"})
            => (req[c].created = <<>> /\ ~req[c].deleted)

\* the keyframe ids in `ids` in playback order (the order of creation)
PlaybackOrder(ids) == SeqOfSet(ids)

\* C6: for every N >= 1 (N > 10 included), generate_videos on a script whose
\* keyframes are all completed, the opening frame plus N body keyframes,
\* creates exactly N video-segment rows with segment_index 0..N-1; row 0
\* goes from the opening keyframe's image to the first body keyframe's, row
\* i from the image of body keyframe i-1 to that of body keyframe i, body
\* keyframes taken in playback order.
C6_PairsInPlaybackOrder ==
    [][\A c \in Clients :
        GenVidInsert(c)
        => LET s == req[c].script
               all == KeyframesOf(keyframes, s)
               body == PlaybackOrder({id \in all :
                            ~EndsWithFirstFrame(keyframes[id].segment_id)})
               opening == {id \in all :
                            EndsWithFirstFrame(keyframes[id].segment_id)}
               created == req'[c].created
           IN (/\ \A id \in all : keyframes[id].status = COMPLETED
               /\ Len(body) >= 1
               /\ Cardinality(opening) = 1)
              => /\ req'[c].result = "ok"
                 /\ Len(created) = Len(body)
                 /\ VideosOf(videos', s) = Range(created)
                 /\ \A i \in 1..Len(created) :
                        LET row == videos'[created[i]]
                        IN /\ row.segment_index = i - 1
                           /\ row.status = GENERATING
                           /\ row.last_frame_url = keyframes[body[i]].image_url
                           /\ row.first_frame_url =
                                IF i = 1
                                THEN keyframes[CHOOSE id \in opening : TRUE].image_url
                                ELSE keyframes[body[i - 1]].image_url]_vars

\* a video segment that is generating and older than the staleness threshold
StaleVideo(id) ==
    /\ videos[id].status = GENERATING
    /\ now - videos[id].updated_at > STALE_KEYFRAME_TIMEOUT

\* C8: the reaper runs on the list-reads of video segments as on those of
\* keyframes: after a list-read of a script's video segments every segment
\* of the script that was generating and older than the staleness threshold
\* is failed with the timeout message.
C8_ReaperOnVideoListRead ==
    [][\A c \in Clients, s \in ScriptIds :
        ListVideos(c, s)
        => \A id \in VideosOf(videos, s) :
                StaleVideo(id)
                => /\ videos'[id].status = FAILED
                   /\ videos'[id].error_message = TimeoutMsg]_vars

\* no unit has row id of `table` ("keyframes" or "videos") among its targets
Orphan(table, id) ==
    LET kinds == IF table = "keyframes" THEN {"pipeline", "regen"}
                 ELSE {"video", "videos"}
    IN \A unit \in BagToSet(units) :
            unit.kind \in kinds => id \notin Range(unit.ids)

\* C9: a row that is generating with no background unit left to end it (the
\* unit died, or failed to write the status) reaches a terminal status once
\* the staleness threshold has elapsed and its script is list-read: that
\* list-read leaves a keyframe row, and a video-segment row, completed or
\* failed.
C9_ListReadEndsOrphans ==
    [][\A s \in ScriptIds :
        /\ ListKeyframes(s)
            => \A id \in KeyframesOf(keyframes, s) :
                (/\ Orphan("keyframes", id)
                 /\ keyframes[id].status = GENERATING
                 /\ now - keyframes[id].updated_at > STALE_KEYFRAME_TIMEOUT)
                    => keyframes'[id].status \in Terminal
        /\ \A c \in Clients :
            ListVideos(c, s)
            => \A id \in VideosOf(videos, s) :
                (Orphan("videos", id) /\ StaleVideo(id))
                    => videos'[id].status \in Terminal]_vars

\* C11: when generate_videos fails with ValidationError (no completed
\* keyframe, no completed body keyframe, or no opening-frame keyframe) no
\* job is launched, no row is created and the video-segment rows the script
\* had before the request are unchanged (none deleted).
C11_FailedVideoRequestChangesNothing ==
    \A c \in Clients :
        (/\ req[c].pc = "done"
         /\ req[c].op = "generate_videos"
         /\ req[c].result = "ValidationError")
            => (req[c].created = <<>> /\ ~req[c].deleted)

\* the completed keyframes of script s
CompletedOf(s) ==
    {id \in KeyframesOf(keyframes, s) : keyframes[id].status = COMPLETED}

\* C12: generate_videos fails with ValidationError when the script has no
\* completed keyframe, and with NotFoundError when completed body keyframes
\* exist but the opening-frame keyframe is missing (not completed or never
\* created).
C12_ErrorKinds ==
    [][\A c \in Clients :
        GenVidInsert(c)
        => LET done == CompletedOf(req[c].script)
               body == {id \in done :
                            ~EndsWithFirstFrame(keyframes[id].segment_id)}
           IN /\ done = {} => req'[c].result = "ValidationError"
              /\ (body # {} /\ body = done)
                    => req'[c].result = "NotFoundError"]_vars

\* the segment_ids on the rows `ids` of the keyframe table `table`
SegmentIdsOf(table, ids) == {table[id].segment_id : id \in ids}

\* C13: generate_keyframes run again and again on an unchanged script: after
\* each run the script's rows are exactly the rows the run created (every
\* row of an earlier run is gone), and their number and segment_ids are
\* those the script's content gives, the same after every run.
C13_RerunSameShape ==
    [][\A c \in Clients :
        (GenKfInsert(c) /\ req'[c].result = "ok")
        => LET s == req[c].script
               created == Range(req'[c].created)
               shape == KeyframeRows(s, parse_script(scripts[s]), 1)
           IN /\ KeyframesOf(keyframes', s) = created
              /\ \A id \in created : id >= nextKf
              /\ Cardinality(created) = Len(shape)
              /\ SegmentIdsOf(keyframes', created) =
                    {shape[k].segment_id : k \in 1..Len(shape)}]_vars

\* a second run has ended: its rows are the only rows of the script
C13_Witness ==
    \E c \in Clients :
        /\ req[c].pc = "done"
        /\ req[c].op = "generate_keyframes"
        /\ req[c].result = "ok"
        /\ req[c].deleted
        /\ Len(req[c].created) >= 2
        /\ KeyframesOf(keyframes, req[c].script) = Range(req[c].created)

\* both clients have the answer "ok" of a request `op` for script s
BothReturned(op, s) ==
    \A c \in RaceClients :
        /\ req[c].pc = "done"
        /\ req[c].op = op
        /\ req[c].script = s
        /\ req[c].result = "ok"

\* C14: after two generate-keyframes requests for the same script have both
\* returned, however their delete and insert steps interleaved, the
\* script's keyframe rows are exactly the rows one of the two created, so
\* no segment_id is on two rows of the script; the same for two
\* generate-videos requests and segment_index.
C14_LastWriterWins ==
    \A s \in ScriptIds :
        /\ BothReturned("generate_keyframes", s)
            => /\ \E c \in RaceClients :
                    KeyframesOf(keyframes, s) = Range(req[c].created)
               /\ \A a, b \in KeyframesOf(keyframes, s) :
                    keyframes[a].segment_id = keyframes[b].segment_id => a = b
        /\ BothReturned("generate_videos", s)
            => /\ \E c \in RaceClients :
                    VideosOf(videos, s) = Range(req[c].created)
               /\ \A a, b \in VideosOf(videos, s) :
                    videos[a].segment_index = videos[b].segment_index => a = b

\* an exception is raised inside the job of `unit` after its row was read,
\* and the job ends in this step
JobRaises(unit) ==
    \/ KfJobEnd(unit, "failure") \/ KfJobEnd(unit, "unwritten")
    \/ VidJobEnd(unit, "failure") \/ VidJobEnd(unit, "unwritten")

\* C15: an exception raised inside a background unit after its row was read
\* is caught and leaves the row `failed` with the exception message when
\* the job ends, also when the failure broke the job's persistence context.
C15_ExceptionLeavesFailed ==
    [][\A unit \in BagToSet(units) :
        JobRaises(unit)
        => LET id == Target(unit)
           IN /\ (unit.kind \in {"pipeline", "regen"} /\ id \in DOMAIN keyframes)
                    => /\ keyframes'[id].status = FAILED
                       /\ keyframes'[id].error_message = JobError
              /\ (unit.kind = "video" /\ id \in DOMAIN videos)
                    => /\ videos'[id].status = FAILED
                       /\ videos'[id].error_message = JobError]_vars

\* the job of the video unit ends in this step
VideoJobEnds(unit) == \E o \in Outcomes : VidJobEnd(unit, o)

\* C16: the failure of one video segment's job never aborts or alters a
\* sibling job of the same request: a job that ends, failing or not, writes
\* to no row but its own and leaves every other unit as it is, and a job
\* that succeeds leaves its row `completed` with its video_url set.
C16_SiblingsIndependent ==
    [][\A unit \in BagToSet(units) :
        VideoJobEnds(unit)
        => LET id == Target(unit)
           IN /\ \A other \in DOMAIN videos :
                    other # id => videos'[other] = videos[other]
              /\ DOMAIN videos' = DOMAIN videos
              /\ units' = units (-) SetToBag({unit})
              /\ (VidJobEnd(unit, "success") /\ id \in DOMAIN videos)
                    => /\ videos'[id].status = COMPLETED
                       /\ videos'[id].video_url = VideoUrl(id)
                       /\ videos'[id].video_url # NoUrl]_vars

\* of two segments of one request one has failed and the other is completed
C16_Witness ==
    \E a, b \in DOMAIN videos :
        /\ a # b
        /\ videos[a].script_id = videos[b].script_id
        /\ videos[a].status = FAILED
        /\ videos[a].error_message = JobError
        /\ videos[b].status = COMPLETED
        /\ videos[b].video_url = VideoUrl(b)

\* a step of the pipeline run of `unit`: one of its jobs begins or ends, or
\* the run dies with the process
RunStep(unit) ==
    \/ KfJobBegin(unit)
    \/ \E o \in Outcomes : KfJobEnd(unit, o)
    \/ Restart

\* C17: in a pipeline run, once keyframe k is written `completed` with its
\* image_url, no later step of the run (the job of a later keyframe
\* failing, the run crashing) changes keyframe k's status or image_url.
C17_CompletedStaysCompleted ==
    [][\A unit \in BagToSet(units) :
        (unit.kind = "pipeline" /\ RunStep(unit))
        => \A k \in 1..(unit.i - 1) :
            LET id == unit.ids[k]
            IN (id \in DOMAIN keyframes /\ keyframes[id].status = COMPLETED)
                => /\ id \in DOMAIN keyframes'
                   /\ keyframes'[id].status = COMPLETED
                   /\ keyframes'[id].image_url = keyframes[id].image_url]_vars

\* the first keyframe of a run is completed and a later one has failed
C17_Witness ==
    \E a, b \in DOMAIN keyframes :
        /\ a < b
        /\ keyframes[a].script_id = keyframes[b].script_id
        /\ keyframes[a].status = COMPLETED
        /\ keyframes[a].image_url = ImageUrl(a, "pipeline")
        /\ keyframes[b].status = FAILED

\* C18: export_videos puts into the archive exactly one entry per segment of
\* the script that is `completed` and whose artifact can be fetched, named
\* segment_<segment_index>.mp4, in ascending segment_index, and no entry for
\* a segment that is not completed; a segment whose artifact is missing or
\* cannot be fetched is skipped and the export goes on.
C18_ArchiveOfCompleted ==
    [][\A c \in Clients, s \in ScriptIds :
        \A fetchable \in SUBSET VideosOf(videos, s) :
            (ExportVideos(c, s, fetchable) /\ CompletedVideos(s) # <<>>)
            => LET want == {id \in VideosOf(videos, s) :
                                /\ videos[id].status = COMPLETED
                                /\ videos[id].video_url # NoUrl
                                /\ id \in fetchable}
                   archive == req'[c].archive
               IN /\ req'[c].result = "ok"
                  /\ req'[c].uploaded
                  /\ Len(archive) = Cardinality(want)
                  /\ {archive[k].segment : k \in 1..Len(archive)} = want
                  /\ \A k \in 1..Len(archive) :
                        archive[k].name =
                            ArchiveName(videos[archive[k].segment].segment_index)
                  /\ \A j, k \in 1..Len(archive) :
                        j < k => archive[j].name.n < archive[k].name.n]_vars

\* of four segments three are completed and one failed; the archive has
\* three entries
C18_Witness ==
    \E c \in Clients :
        /\ req[c].pc = "done"
        /\ req[c].op = "export_videos"
        /\ req[c].result = "ok"
        /\ Len(req[c].archive) = 3
        /\ Cardinality(VideosOf(videos, req[c].script)) = 4
        /\ \E id \in VideosOf(videos, req[c].script) : videos[id].status = FAILED

\* C19: export_videos on a script with no `completed` video segment raises
\* NotFoundError, builds and uploads no archive and changes no row.
C19_NothingToExport ==
    [][\A c \in Clients, s \in ScriptIds \cup {AbsentScript} :
        \A fetchable \in SUBSET VideosOf(videos, s) :
            (/\ ExportVideos(c, s, fetchable)
             /\ \A id \in VideosOf(videos, s) : videos[id].status # COMPLETED)
            => /\ req'[c].result = "NotFoundError"
               /\ req'[c].archive = <<>>
               /\ ~req'[c].uploaded
               /\ videos' = videos
               /\ keyframes' = keyframes]_vars

\* an export of a script whose segments are all failed or generating was
\* refused
C19_Witness ==
    \E c \in Clients :
        /\ req[c].pc = "done"
        /\ req[c].op = "export_videos"
        /\ req[c].result = "NotFoundError"
        /\ VideosOf(videos, req[c].script) # {}

\* C20: in every reachable state a `completed` keyframe has an image_url and
\* no error_message, and a `failed` keyframe has an error_message, whatever
\* the interleaving of pipeline jobs, regenerate jobs and reaper list-reads.
C20_StatusFieldsAgree ==
    \A id \in DOMAIN keyframes :
        /\ keyframes[id].status = COMPLETED
            => /\ keyframes[id].image_url # NoUrl
               /\ keyframes[id].error_message = None
        /\ keyframes[id].status = FAILED
            => keyframes[id].error_message # None

\* C21: retry_decorator invokes the wrapped operation at most max_attempts
\* times, returns the first successful result with no further invocation,
\* and after max_attempts consecutive failures propagates the error of the
\* last invocation, unchanged.
C21_RetryBounded ==
    /\ \A c \in Clients :
        (req[c].pc \in {"loop", "done"} /\ req[c].op = "retry")
        => /\ req[c].calls <= req[c].max_attempts
           /\ req[c].result.kind = "ok"
                => (req[c].pc = "done" /\ req[c].result.of = req[c].calls)
           /\ req[c].result.kind = "error"
                => /\ req[c].pc = "done"
                   /\ req[c].calls = req[c].max_attempts
                   /\ req[c].result = ErrorOf(req[c].calls)
           /\ (req[c].calls = req[c].max_attempts /\ req[c].max_attempts >= 1)
                => (req[c].pc = "done" /\ req[c].result.kind \in {"ok", "error"})

\* three invocations have failed and the wrapper has raised
C21_Witness ==
    \E c \in Clients :
        /\ req[c].pc = "done"
        /\ req[c].op = "retry"
        /\ req[c].max_attempts = 3
        /\ req[c].calls = 3
        /\ req[c].result.kind = "error"

\* the row a unit's job is about, NoRow when it is gone
RowOf(unit, kfs, vids) ==
    IF unit.kind = "video"
    THEN (IF Target(unit) \in DOMAIN vids THEN vids[Target(unit)] ELSE NoRow)
    ELSE (IF Target(unit) \in DOMAIN kfs THEN kfs[Target(unit)] ELSE NoRow)

\* no call has issued more than 60 poll requests, and a call that has used
\* up its polls without a terminal status has ended with the timeout error
PollsBounded ==
    \A unit \in BagToSet(units) :
        /\ unit.polls <= 60
        /\ (unit.polls = PollBound(unit.api) /\ unit.api # "none")
            => unit.call \in {"succeeded", "failed", "timeout"}

\* the job of `unit` ends in this step
JobEnds(unit) ==
    /\ unit \in BagToSet(units)
    /\ unit.pc = "calling"
    /\ units' = Step(units, unit, Advance(unit, NoUrl))

\* C22: every image or video generation call issues at most 60 poll
\* requests and then stops; a call that saw no terminal status within the
\* bound fails with a timeout error, and the job handles it like an
\* explicit failure: the row ends failed.
C22_TimeoutEndsFailed ==
    /\ []PollsBounded
    /\ [][\A unit \in BagToSet(units) :
            (JobEnds(unit) /\ unit.call = "timeout"
                /\ RowOf(unit, keyframes, videos) # NoRow)
            => RowOf(unit, keyframes', videos').status = FAILED]_vars

\* the step is the regenerate request of a keyframe or a step of its job:
\* the units that come or go in it are all regenerate units
RegenStep ==
    /\ units' # units
    /\ \A unit \in BagToSet(units) \cup BagToSet(units') :
        CopiesIn(unit, units) # CopiesIn(unit, units') => unit.kind = "regen"

\* C23: regenerating a keyframe, and every write of its job, changes no
\* existing video-segment row: first_frame_url, last_frame_url, video_url
\* and status of every row stay as they are.
C23_RegenerateLeavesVideos ==
    [][RegenStep => videos' = videos]_vars

\* a video is completed and a keyframe of its script, regenerated since,
\* has failed
C23_Witness ==
    /\ \E v \in DOMAIN videos :
        videos[v].status = COMPLETED /\ videos[v].video_url # NoUrl
    /\ \E id \in DOMAIN keyframes : keyframes[id].status = FAILED
    /\ units = EmptyBag

\* the scripts of the rows of `ids` in the table before or after the step
ScriptsOfRows(old, new, ids) ==
    {old[id].script_id : id \in ids \cap DOMAIN old}
        \cup {new[id].script_id : id \in ids \cap DOMAIN new}

\* the ids of the rows a step adds, removes or changes
Touched(old, new) ==
    {id \in DOMAIN old \cup DOMAIN new :
        id \notin DOMAIN old \/ id \notin DOMAIN new \/ old[id] # new[id]}

\* the scripts the requests and units acting in the step were started for
ActingFor ==
    {req'[c].script : c \in {d \in DOMAIN req : req'[d] # req[d] /\ req'[d] # Idle}}
    \cup UNION {IF unit.kind \in {"videos", "video"}
                THEN ScriptsOfRows(videos, videos',
                                   IF unit.kind = "videos" THEN Range(unit.ids)
                                   ELSE {Target(unit)})
                ELSE ScriptsOfRows(keyframes, keyframes', {Target(unit)}) :
                unit \in {u \in BagToSet(units) \cup BagToSet(units') :
                            CopiesIn(u, units) # CopiesIn(u, units')}}

KeyframesShowing(s, url) ==
    {id \in KeyframesOf(keyframes, s) : keyframes[id].image_url = url}

\* C25: each video-segment row is created with the prompt of its
\* destination keyframe, the one whose image is its last_frame_url; the row
\* of segment 0 has the prompt of the first body keyframe, not that of the
\* opening frame, whose image is its first_frame_url.
C25_PromptOfDestination ==
    [][\A v \in DOMAIN videos' \ DOMAIN videos :
        LET row == videos'[v]
            dest == KeyframesShowing(row.script_id, row.last_frame_url)
            from == KeyframesShowing(row.script_id, row.first_frame_url)
            body == {id \in KeyframesOf(keyframes, row.script_id) :
                        ~EndsWithFirstFrame(keyframes[id].segment_id)}
        IN /\ Cardinality(dest) = 1
           /\ \A id \in dest :
                /\ row.prompt = keyframes[id].prompt
                /\ id \in body
                /\ row.segment_index = 0
                    => \A other \in body :
                        keyframes[id].segment_id.n <= keyframes[other].segment_id.n
           /\ \A id \in from : row.prompt # keyframes[id].prompt
           /\ row.segment_index = 0
                => \E id \in from : EndsWithFirstFrame(keyframes[id].segment_id)]_vars

\* the rows of segment 0 and segment 1 exist with their prompts
C25_Witness ==
    \E v, w \in DOMAIN videos :
        /\ videos[v].segment_index = 0
        /\ videos[w].segment_index = 1
        /\ videos[v].prompt # videos[w].prompt
        /\ videos[w].first_frame_url = videos[v].last_frame_url

UnitsLeaving == {u \in BagToSet(units) : CopiesIn(u, units') < CopiesIn(u, units)}

UnitsJoining == {u \in BagToSet(units') : CopiesIn(u, units) < CopiesIn(u, units')}

\* C27: generate_keyframes creates the rows in playback order (the opening
\* frame first when there is one, then the body segments in ascending
\* order), and the pipeline run visits exactly those rows in that order of
\* creation, one job per row: no row is skipped, none is visited twice.
C27_VisitsInCreationOrder ==
    [][/\ \A c \in Clients :
            (GenKfInsert(c) /\ req'[c].result = "ok")
            => LET created == req'[c].created
               IN /\ \E unit \in UnitsJoining :
                        unit.kind = "pipeline" /\ unit.ids = created /\ unit.i = 1
                  /\ \A k \in 1..Len(created) :
                        /\ created[k] = nextKf + k - 1
                        /\ EndsWithFirstFrame(keyframes'[created[k]].segment_id)
                            => k = 1
                  /\ \A j, k \in 1..Len(created) :
                        (j < k /\ ~EndsWithFirstFrame(keyframes'[created[j]].segment_id))
                        => keyframes'[created[j]].segment_id.n
                                < keyframes'[created[k]].segment_id.n
       /\ \A unit \in UnitsLeaving :
            (unit.kind = "pipeline" /\ ~Restart)
            => /\ Touched(keyframes, keyframes') \subseteq {unit.ids[unit.i]}
               /\ \/ \E next \in UnitsJoining :
                        /\ next.ids = unit.ids
                        /\ \/ /\ unit.pc = "start"
                              /\ next.pc = "calling"
                              /\ next.i = unit.i
                              /\ next.loaded = Loaded(keyframes[unit.ids[unit.i]])
                           \/ /\ next.pc = "start"
                              /\ next.i = unit.i + 1
                  \/ /\ UnitsJoining = {}
                     /\ unit.i = Len(unit.ids)]_vars

\* the run has come to the last of its three rows, the rows before it
\* written by their jobs
C27_Witness ==
    \E unit \in BagToSet(units) :
        /\ unit.kind = "pipeline"
        /\ Len(unit.ids) = 3
        /\ unit.i = 3
        /\ unit.pc = "calling"
        /\ \A k \in 1..2 :
            /\ unit.ids[k] \in DOMAIN keyframes
            /\ keyframes[unit.ids[k]].status # GENERATING

\* every reference a run holds is the stored image of an earlier row of the
\* run, and the first job of a run has none
ReferenceFromEarlier ==
    \A unit \in BagToSet(units) :
        unit.kind = "pipeline"
        => /\ unit.i = 1 => ReferenceFor(unit) = NoUrl
           /\ ReferenceFor(unit) # NoUrl
                => \E k \in 1..(unit.i - 1) :
                    /\ ReferenceFor(unit).kf = unit.ids[k]
                    /\ unit.ids[k] \in DOMAIN keyframes
                        => keyframes[unit.ids[k]].image_url = ReferenceFor(unit)

\* C28: in a pipeline run the first keyframe is generated with no reference
\* image; when the job of frame i succeeds, the call of frame i+1 gets as
\* reference exactly the image_url written to frame i's row, the blob-store
\* url; a reference is always the stored url of an earlier keyframe of the
\* same run.
C28_ReferenceIsStoredUrl ==
    /\ []ReferenceFromEarlier
    /\ [][\A unit \in BagToSet(units) :
            (/\ unit.kind = "pipeline"
             /\ unit.i < Len(unit.ids)
             /\ Target(unit) \in DOMAIN keyframes
             /\ KfJobEnd(unit, "success"))
            => \E next \in BagToSet(units') :
                /\ next.ids = unit.ids
                /\ next.i = unit.i + 1
                /\ ReferenceFor(next) # NoUrl
                /\ ReferenceFor(next) = keyframes'[Target(unit)].image_url]_vars

\* the call of the third frame is under way with the second frame's stored
\* image as reference
C28_Witness ==
    \E unit \in BagToSet(units) :
        /\ unit.kind = "pipeline"
        /\ unit.i = 3
        /\ unit.pc = "calling"
        /\ unit.ids[2] \in DOMAIN keyframes
        /\ keyframes[unit.ids[2]].status = COMPLETED
        /\ ReferenceFor(unit) = keyframes[unit.ids[2]].image_url

\* C29: regenerate_keyframe sets the keyframe's status to generating and
\* clears its error_message before it returns, and launches one independent
\* unit for that keyframe, which calls the generation with the keyframe's
\* own stored prompt and no reference image; for an id that no row has it
\* fails with NotFoundError, changes nothing and launches nothing.
C29_RegenerateKeyframe ==
    [][/\ \A unit \in UnitsJoining :
            (unit.kind = "regen" /\ unit.pc = "start")
            => /\ UnitsJoining = {unit}
               /\ UnitsLeaving = {}
               /\ BagCardinality(units') = BagCardinality(units) + 1
               /\ Len(unit.ids) = 1
               /\ Target(unit) \in DOMAIN keyframes
               /\ DOMAIN keyframes' = DOMAIN keyframes
               /\ keyframes'[Target(unit)].status = GENERATING
               /\ keyframes'[Target(unit)].error_message = None
               /\ \A col \in {"id", "script_id", "segment_id", "prompt", "image_url"} :
                    keyframes'[Target(unit)][col] = keyframes[Target(unit)][col]
               /\ Touched(keyframes, keyframes') \subseteq {Target(unit)}
       /\ \A unit \in UnitsJoining :
            (unit.kind = "regen" /\ unit.pc = "calling")
            => /\ unit.loaded.prompt = keyframes[Target(unit)].prompt
               /\ ReferenceFor(unit) = NoUrl
       /\ \A c \in Clients :
            (req'[c] # req[c] /\ req'[c].pc = "done"
                /\ req'[c].op = "regenerate_keyframe")
            => /\ req'[c].result = "NotFoundError"
               /\ keyframes' = keyframes
               /\ units' = units
       /\ (keyframes' # keyframes /\ UnitsLeaving = {})
            => \E unit \in UnitsJoining : unit.kind = "regen"]_vars

\* a failed keyframe is being regenerated, its error message cleared, and a
\* request for an id without a row has been refused
C29_Witness ==
    /\ \E unit \in BagToSet(units) :
        /\ unit.kind = "regen"
        /\ unit.pc = "calling"
        /\ unit.loaded.status = GENERATING
        /\ unit.loaded.error_message = None
    /\ \E id \in DOMAIN keyframes : keyframes[id].status = FAILED
    /\ \E c \in Clients :
        req[c].pc = "done" /\ req[c].op = "regenerate_keyframe"

\* C30: regenerate_video_segment sets the segment's status to generating,
\* clears video_url and error_message, stores the model of the request when
\* it names one and keeps the stored model otherwise, leaves segment_index,
\* first_frame_url, last_frame_url, prompt, aspect_ratio and duration as
\* they are, and launches exactly one job, for that segment only.
C30_RegenerateVideoSegment ==
    [][\A id \in DOMAIN videos, model \in VideoModels \cup {None} :
        RegenerateVideoSegment(id, model)
        => /\ DOMAIN videos' = DOMAIN videos
           /\ videos'[id].status = GENERATING
           /\ videos'[id].video_url = NoUrl
           /\ videos'[id].error_message = None
           /\ videos'[id].model = IF model # None THEN model ELSE videos[id].model
           /\ \A col \in {"id", "script_id", "segment_index", "first_frame_url",
                          "last_frame_url", "prompt", "aspect_ratio", "duration"} :
                videos'[id][col] = videos[id][col]
           /\ Touched(videos, videos') \subseteq {id}
           /\ UnitsLeaving = {}
           /\ BagCardinality(units') = BagCardinality(units) + 1
           /\ \A unit \in UnitsJoining :
                unit.kind = "video" /\ unit.ids = <<id>> /\ unit.pc = "start"]_vars

\* a segment regenerated with another model is being regenerated again, its
\* job reading the row with that model
C30_Witness ==
    \E unit \in BagToSet(units) :
        /\ unit.kind = "video"
        /\ unit.pc = "calling"
        /\ unit.loaded.model = "sora-2"
        /\ unit.loaded.video_url = NoUrl
        /\ \E v \in DOMAIN videos : v # Target(unit) /\ videos[v].status = COMPLETED

\* C31: when a poll returns an explicit failed status the call issues no
\* further poll and raises at once, and the row becomes failed with an
\* error_message that keeps the upstream reason; a poll that returns
\* succeeded ends polling as well; a failed poll is never retried.
C31_FailedPollEndsJob ==
    [][\A unit \in UnitsLeaving :
        unit.call \in {"failed", "succeeded"}
        => /\ \A next \in UnitsJoining :
                next.ids = unit.ids => (next.i > unit.i /\ next.polls = 0)
           /\ (unit.call = "failed" /\ RowOf(unit, keyframes, videos) # NoRow)
                => /\ RowOf(unit, keyframes', videos').status = FAILED
                   /\ RowOf(unit, keyframes', videos').error_message
                        = "generation failed: upstream reason"]_vars

C33_DispatchOnModel ==
    [][/\ \A unit \in UnitsLeaving :
            CallVideoApi(unit, TRUE)
            => \A next \in UnitsJoining :
                LET model == unit.loaded.model
                    row == videos[Target(unit)]
                IN /\ model \in {"sora-2"}
                        => /\ next.api = "sora"
                           /\ SubmitFrames(next.api, row) = <<row.last_frame_url>>
                   /\ model \in {"veo3.1-fast"}
                        => /\ next.api = "veo"
                           /\ SubmitFrames(next.api, row)
                                = <<row.first_frame_url, row.last_frame_url>>
                   /\ model \in {"kling-v1"}
                        => /\ next.api = "none"
                           /\ next.call = "unsupported"
                           /\ next.polls = 0
       /\ \A unit \in UnitsLeaving :
            (JobEnds(unit) /\ unit.call = "unsupported"
                /\ RowOf(unit, keyframes, videos) # NoRow)
            => /\ unit.api = "none"
               /\ RowOf(unit, keyframes', videos').status = FAILED
               /\ RowOf(unit, keyframes', videos').error_message
                    = "unsupported model"]_vars

\* C34: between failed attempt n (1 <= n < max_attempts) and attempt n + 1
\* retry_decorator waits exactly
\* min(wait_min * wait_multiplier^(n - 1), wait_max); it does not wait after
\* the last failed attempt, and no wait exceeds wait_max.
C34_WaitBetweenAttempts ==
    [][\A c \in Clients :
        (req[c].pc = "loop" /\ req'[c].pc \in {"loop", "done"}
            /\ req'[c].op = "retry")
        => LET n == req'[c].attempt
               wait == req'[c].slept - req[c].slept
               power == req[c].wait_min * Pow(req[c].wait_multiplier, n - 1)
           IN /\ (n = req[c].attempt + 1 /\ n < req[c].max_attempts)
                    => /\ req'[c].pc = "loop"
                       /\ wait = IF power <= req[c].wait_max
                                 THEN power ELSE req[c].wait_max
              /\ (n = req[c].attempt + 1 /\ n >= req[c].max_attempts)
                    => (wait = 0 /\ req'[c].pc = "done")
              /\ n = req[c].attempt => wait = 0
              /\ wait <= req[c].wait_max]_vars

\* three attempts have failed and the third wait was cut to wait_max:
\* 1 + 2 + 3 seconds slept where the powers are 1, 2 and 4
C34_Witness ==
    \E c \in Clients :
        /\ req[c].pc = "loop"
        /\ req[c].op = "retry"
        /\ req[c].max_attempts = 4
        /\ req[c].wait_min = 1
        /\ req[c].wait_multiplier = 2
        /\ req[c].wait_max = 3
        /\ req[c].attempt = 3
        /\ req[c].slept = 6

\* C35: parse_script tags each unit of the script as the opening frame or
\* as a numbered body segment, never both: a paragraph
\* "(0:00 - 0:00) <opening label>: ..." yields only the opening-frame
\* segment, before segment_0, and no body segment for the same text; the
\* number of body segments is the number of time-stamped paragraphs that
\* are not the opening.
C35_OpeningOrBody ==
    [][\A c \in Clients :
        (req[c].pc # "insert" /\ req'[c].pc = "insert"
            /\ req'[c].op = "generate_keyframes")
        => LET content == scripts[req'[c].script]
               segments == req'[c].segments
               opening == SelectSeq(segments, LAMBDA g : g.is_frame_0)
               body == SelectSeq(segments, LAMBDA g : ~g.is_frame_0)
           IN /\ \A i \in 1..Len(content) :
                    ~ /\ \E g \in Range(opening) : g.content[1] = i
                      /\ \E h \in Range(body) : h.content[1] = i
              /\ \A i \in 1..Len(content) :
                    (content[i] = "zero_opening"
                        /\ \A j \in 1..(i - 1) : content[j] \notin OpeningKinds)
                    => /\ segments[1].is_frame_0
                       /\ segments[1].content[1] = i
                       /\ \A h \in Range(body) : h.content[1] # i
              /\ Len(body) = Cardinality({i \in 1..Len(content) :
                                content[i] \in TimeKinds \ OpeningKinds})]_vars

\* C36: the reaper never sets to `failed` a keyframe whose background unit
\* is alive and has not finished with it; in particular a keyframe that
\* waits its turn in a pipeline whose earlier frames take more than the
\* stale timeout is not failed by a list-read.
C36_ReaperSparesLiveUnits ==
    [][\A id \in DOMAIN keyframes :
        (/\ units' = units
         /\ id \in DOMAIN keyframes'
         /\ keyframes[id].status = GENERATING
         /\ keyframes'[id].status = FAILED)
        => ~ \E unit \in BagToSet(units) :
                \E k \in unit.i..Len(unit.ids) : unit.ids[k] = id]_vars

\* C37: for every video segment, after any interleaving of generate_videos,
\* regenerate_video_segment and job completions and failures: video_url is
\* non-null exactly when the status is `completed`, and a `generating` row
\* has a null video_url and a null error_message.
C37_VideoFieldsAgree ==
    \A id \in DOMAIN videos :
        /\ videos[id].video_url # NoUrl <=> videos[id].status = COMPLETED
        /\ videos[id].status = GENERATING
            => /\ videos[id].video_url = NoUrl
               /\ videos[id].error_message = None

\* C38: background units never insert or delete rows; when the row a job
\* is for has been deleted (for instance by a later generate request) the
\* unit writes nothing and never creates the row again, and a pipeline goes
\* on with its next id.
C38_UnitsKeepTheRowSet ==
    [][\A unit \in UnitsLeaving :
        (\/ KfJobBegin(unit)
         \/ VidBatchStart(unit)
         \/ VidJobBegin(unit)
         \/ \E o \in Outcomes : KfJobEnd(unit, o) \/ VidJobEnd(unit, o))
        => /\ DOMAIN keyframes' = DOMAIN keyframes
           /\ DOMAIN videos' = DOMAIN videos
           /\ (unit.kind # "videos" /\ RowOf(unit, keyframes, videos) = NoRow)
                => /\ keyframes' = keyframes
                   /\ videos' = videos
                   /\ (unit.kind = "pipeline" /\ unit.i < Len(unit.ids))
                        => \E next \in UnitsJoining :
                              /\ next.ids = unit.ids
                              /\ next.i = unit.i + 1
                              /\ next.pc = "start"]_vars

\* a pipeline has gone on to its second id after it found the row of its
\* first id deleted, and the row of the second id is deleted as well
C38_Witness ==
    \E unit \in BagToSet(units) :
        /\ unit.kind = "pipeline"
        /\ unit.i = 2
        /\ unit.pc = "start"
        /\ unit.prev = NoUrl
        /\ unit.ids[1] \notin DOMAIN keyframes
        /\ unit.ids[2] \notin DOMAIN keyframes

\* C39: the completion of a job does not change the keyframe's prompt: a
\* prompt written by update_keyframe_prompt while the job is in flight is
\* still stored after the job writes `completed`.
C39_JobKeepsPrompt ==
    [][\A unit \in UnitsLeaving :
        ((\E o \in Outcomes : KfJobEnd(unit, o))
            /\ RowOf(unit, keyframes, videos) # NoRow)
        => keyframes'[Target(unit)].prompt = keyframes[Target(unit)].prompt]_vars

\* C40: after upload_keyframe_image returns, the keyframe stays `completed`
\* with the uploaded url until the next explicit regenerate or generate
\* request, also when a generation job for it was in flight at the time of
\* the upload.
C40_UploadStays ==
    [][\A id \in DOMAIN keyframes :
        (/\ keyframes[id].status = COMPLETED
         /\ keyframes[id].image_url = UploadUrl(id)
         /\ ~ RegenerateKeyframe(id)
         /\ ~ \E c \in Clients, s \in ScriptIds : GenKfBegin(c, s))
        => /\ id \in DOMAIN keyframes'
           /\ keyframes'[id].status = COMPLETED
           /\ keyframes'[id].image_url = UploadUrl(id)]_vars

====
